---- MODULE Spec2Model ----
(***************************************************************************)
(* Model of the nanobot P2P relay: the safeguard protocol                  *)
(* (nanobot/api/p2p_protocol.py), the multi-turn issue dialog              *)
(* (nanobot/api/conversation.py) and the endpoints that drive them         *)
(* (nanobot/api/server.py).                                                *)
(*                                                                         *)
(* Time is counted in whole seconds.  datetime.now().isoformat() followed  *)
(* by datetime.fromisoformat() returns the datetime it was given, so a     *)
(* stored timestamp is modelled by the clock value it was taken at.        *)
(* A text is a sequence of one-character strings, so that lower(), the     *)
(* substring tests and the digit search are computed, not assumed.         *)
(***************************************************************************)
EXTENDS Integers, Sequences, FiniteSets, TLC

(***************************************************************************)
(* Program constants                                                       *)
(***************************************************************************)
MAX_TURNS_PER_CONVERSATION == 3
COOLDOWN_SECONDS == 60
CONVERSATION_TIMEOUT_MINUTES == 5
SecondsPerHour == 3600
DefaultMaxAgeHours == 24

(***************************************************************************)
(* Bounds of the model                                                     *)
(***************************************************************************)
\* record_turn has no upper limit on turns; the model stops counting here.
TurnCap == 4

\* A dialog session has no upper limit on messages; the model stops a
\* session here.
MaxMessages == 5

\* The same for a session driven through handle_github_dialog directly:
\* first contact, a selection, the analysis and the answer to its question
\* fit below it.
MaxDialogMessages == 6

\* The same where the dialog runs next to the protocol on unreadable
\* files.
MaxStoreMessages == 2

\* The clock values the model visits.  They meet every threshold of the
\* code from both sides, measured from 0: 30/60/61 s around the cooldown,
\* 300/301 s around the conversation timeout, 86400/86401 s around the
\* 24 h cleanup horizon.  The clock never runs backwards.
TimePoints == {30, 60, 61, 300, 301, 86400, 86401}

\* The clock at start-up, and the timestamps a state file found at
\* start-up may mention.
StartTime == 30
InitTimes == {0, 30}

\* The clock values the relay visits: a request can come 30 s and 60 s
\* after the one before it.
RelayTimes == {30, 60, 90}

ConvIds == {"c1", "c2"}
Sources == {"argus", "nanobot"}
EndReasons == {"digest_complete"}

VARIABLES
    now,        \* the wall clock, datetime.now()
    stateFile,  \* ~/.local/share/p2p-state.json
    convFile,   \* ~/.local/share/p2p-conversations.json
    resp,       \* the last operation and what it returned
    inflight    \* the calls that have loaded the state and not yet saved

vars == <<now, stateFile, convFile, resp, inflight>>

(***************************************************************************)
(* The state file: p2p_protocol.py                                         *)
(***************************************************************************)
\* last_response_at is None (<<>>) or one timestamp (<<t>>).
None == <<>>
\* The key end_reason is absent until end_conversation writes it.
NoReason == "<absent>"

DefaultState == [conversations |-> <<>>, last_response_at |-> None]

\* load_state: the parsed file, or the default when the file is absent or
\* json.loads raises.
load_state(f) ==
    IF f.kind = "json" THEN f.data ELSE DefaultState

\* save_state: the file now holds json.dumps(state).
save_state(state) == [kind |-> "json", data |-> state]

Reply(admit, reason) == [admit |-> admit, reason |-> reason]

(***************************************************************************)
(* Faulty variants, used to test that the properties below depend on the   *)
(* code: each differs from the definition after it by one plausible slip.  *)
(***************************************************************************)
\* The cooldown compared with <= instead of <.
check_safeguards_cooldown_le(f, t, conversation_id, source) ==
    LET state == load_state(f)
        convs == state.conversations
    IN  IF /\ state.last_response_at # None
           /\ t - state.last_response_at[1] <= COOLDOWN_SECONDS
        THEN Reply(FALSE, "Cooldown active (60s)")
        ELSE IF conversation_id \in DOMAIN convs
                /\ convs[conversation_id].completed
        THEN Reply(FALSE, "Conversation already completed")
        ELSE IF conversation_id \in DOMAIN convs
                /\ convs[conversation_id].turns >= MAX_TURNS_PER_CONVERSATION
        THEN Reply(FALSE, "Max turns reached (3)")
        ELSE IF conversation_id \in DOMAIN convs
                /\ t - convs[conversation_id].started_at
                     > CONVERSATION_TIMEOUT_MINUTES * 60
        THEN Reply(FALSE, "Conversation timed out")
        ELSE IF source = "nanobot"
        THEN Reply(FALSE, "Won't respond to own messages")
        ELSE Reply(TRUE, "OK")

\* The cooldown rule left out.
check_safeguards_no_cooldown(f, t, conversation_id, source) ==
    LET state == load_state(f)
        convs == state.conversations
    IN  IF conversation_id \in DOMAIN convs
           /\ convs[conversation_id].completed
        THEN Reply(FALSE, "Conversation already completed")
        ELSE IF conversation_id \in DOMAIN convs
                /\ convs[conversation_id].turns >= MAX_TURNS_PER_CONVERSATION
        THEN Reply(FALSE, "Max turns reached (3)")
        ELSE IF conversation_id \in DOMAIN convs
                /\ t - convs[conversation_id].started_at
                     > CONVERSATION_TIMEOUT_MINUTES * 60
        THEN Reply(FALSE, "Conversation timed out")
        ELSE IF source = "nanobot"
        THEN Reply(FALSE, "Won't respond to own messages")
        ELSE Reply(TRUE, "OK")

\* The completed rule left out.
check_safeguards_no_completed(f, t, conversation_id, source) ==
    LET state == load_state(f)
        convs == state.conversations
    IN  IF /\ state.last_response_at # None
           /\ t - state.last_response_at[1] < COOLDOWN_SECONDS
        THEN Reply(FALSE, "Cooldown active (60s)")
        ELSE IF conversation_id \in DOMAIN convs
                /\ convs[conversation_id].turns >= MAX_TURNS_PER_CONVERSATION
        THEN Reply(FALSE, "Max turns reached (3)")
        ELSE IF conversation_id \in DOMAIN convs
                /\ t - convs[conversation_id].started_at
                     > CONVERSATION_TIMEOUT_MINUTES * 60
        THEN Reply(FALSE, "Conversation timed out")
        ELSE IF source = "nanobot"
        THEN Reply(FALSE, "Won't respond to own messages")
        ELSE Reply(TRUE, "OK")

\* The turn limit compared with > instead of >=.
check_safeguards_turns_gt(f, t, conversation_id, source) ==
    LET state == load_state(f)
        convs == state.conversations
    IN  IF /\ state.last_response_at # None
           /\ t - state.last_response_at[1] < COOLDOWN_SECONDS
        THEN Reply(FALSE, "Cooldown active (60s)")
        ELSE IF conversation_id \in DOMAIN convs
                /\ convs[conversation_id].completed
        THEN Reply(FALSE, "Conversation already completed")
        ELSE IF conversation_id \in DOMAIN convs
                /\ convs[conversation_id].turns > MAX_TURNS_PER_CONVERSATION
        THEN Reply(FALSE, "Max turns reached (3)")
        ELSE IF conversation_id \in DOMAIN convs
                /\ t - convs[conversation_id].started_at
                     > CONVERSATION_TIMEOUT_MINUTES * 60
        THEN Reply(FALSE, "Conversation timed out")
        ELSE IF source = "nanobot"
        THEN Reply(FALSE, "Won't respond to own messages")
        ELSE Reply(TRUE, "OK")

\* The self-origin rule left out.
check_safeguards_no_self(f, t, conversation_id, source) ==
    LET state == load_state(f)
        convs == state.conversations
    IN  IF /\ state.last_response_at # None
           /\ t - state.last_response_at[1] < COOLDOWN_SECONDS
        THEN Reply(FALSE, "Cooldown active (60s)")
        ELSE IF conversation_id \in DOMAIN convs
                /\ convs[conversation_id].completed
        THEN Reply(FALSE, "Conversation already completed")
        ELSE IF conversation_id \in DOMAIN convs
                /\ convs[conversation_id].turns >= MAX_TURNS_PER_CONVERSATION
        THEN Reply(FALSE, "Max turns reached (3)")
        ELSE IF conversation_id \in DOMAIN convs
                /\ t - convs[conversation_id].started_at
                     > CONVERSATION_TIMEOUT_MINUTES * 60
        THEN Reply(FALSE, "Conversation timed out")
        ELSE Reply(TRUE, "OK")

\* The check stamping last_response_at, as record_turn does.
check_safeguards_file_stamps(f, t, conversation_id, source) ==
    save_state([load_state(f) EXCEPT !.last_response_at = <<t>>])

\* turns assigned 1 instead of incremented.
record_turn_assigns_one(f, t, conversation_id) ==
    LET state == load_state(f)
        s1 == IF conversation_id \in DOMAIN state.conversations
              THEN [state EXCEPT
                      !.conversations[conversation_id].turns = 1,
                      !.conversations[conversation_id].last_message_at = t]
              ELSE state
    IN  save_state([s1 EXCEPT !.last_response_at = <<t>>])

(***************************************************************************)
(* The operations of p2p_protocol.py                                       *)
(***************************************************************************)
\* Faulty variant: the test of the source moved in front of the others.
check_safeguards_self_first(f, t, conversation_id, source) ==
    LET state == load_state(f)
        convs == state.conversations
    IN  IF source = "nanobot"
        THEN Reply(FALSE, "Won't respond to own messages")
        ELSE IF /\ state.last_response_at # None
                /\ t - state.last_response_at[1] < COOLDOWN_SECONDS
        THEN Reply(FALSE, "Cooldown active (60s)")
        ELSE IF conversation_id \in DOMAIN convs
                /\ convs[conversation_id].completed
        THEN Reply(FALSE, "Conversation already completed")
        ELSE IF conversation_id \in DOMAIN convs
                /\ convs[conversation_id].turns >= MAX_TURNS_PER_CONVERSATION
        THEN Reply(FALSE, "Max turns reached (3)")
        ELSE IF conversation_id \in DOMAIN convs
                /\ t - convs[conversation_id].started_at
                     > CONVERSATION_TIMEOUT_MINUTES * 60
        THEN Reply(FALSE, "Conversation timed out")
        ELSE Reply(TRUE, "OK")

\* Faulty variant: the turn limit left out.
check_safeguards_no_turn_limit(f, t, conversation_id, source) ==
    LET state == load_state(f)
        convs == state.conversations
    IN  IF /\ state.last_response_at # None
           /\ t - state.last_response_at[1] < COOLDOWN_SECONDS
        THEN Reply(FALSE, "Cooldown active (60s)")
        ELSE IF conversation_id \in DOMAIN convs
                /\ convs[conversation_id].completed
        THEN Reply(FALSE, "Conversation already completed")
        ELSE IF conversation_id \in DOMAIN convs
                /\ t - convs[conversation_id].started_at
                     > CONVERSATION_TIMEOUT_MINUTES * 60
        THEN Reply(FALSE, "Conversation timed out")
        ELSE IF source = "nanobot"
        THEN Reply(FALSE, "Won't respond to own messages")
        ELSE Reply(TRUE, "OK")

\* Faulty variant: half the cooldown.
check_safeguards_cooldown_half(f, t, conversation_id, source) ==
    LET state == load_state(f)
        convs == state.conversations
    IN  IF /\ state.last_response_at # None
           /\ t - state.last_response_at[1] < COOLDOWN_SECONDS \div 2
        THEN Reply(FALSE, "Cooldown active (60s)")
        ELSE IF conversation_id \in DOMAIN convs
                /\ convs[conversation_id].completed
        THEN Reply(FALSE, "Conversation already completed")
        ELSE IF conversation_id \in DOMAIN convs
                /\ convs[conversation_id].turns >= MAX_TURNS_PER_CONVERSATION
        THEN Reply(FALSE, "Max turns reached (3)")
        ELSE IF conversation_id \in DOMAIN convs
                /\ t - convs[conversation_id].started_at
                     > CONVERSATION_TIMEOUT_MINUTES * 60
        THEN Reply(FALSE, "Conversation timed out")
        ELSE IF source = "nanobot"
        THEN Reply(FALSE, "Won't respond to own messages")
        ELSE Reply(TRUE, "OK")

\* check_safeguards, rule by rule in the order of the code; every rule
\* returns at once.
check_safeguards(f, t, conversation_id, source) ==
    LET state == load_state(f)
        convs == state.conversations
    IN  IF /\ state.last_response_at # None
           /\ t - state.last_response_at[1] < COOLDOWN_SECONDS
        THEN Reply(FALSE, "Cooldown active (60s)")
        ELSE IF conversation_id \in DOMAIN convs
                /\ convs[conversation_id].completed
        THEN Reply(FALSE, "Conversation already completed")
        ELSE IF conversation_id \in DOMAIN convs
                /\ convs[conversation_id].turns >= MAX_TURNS_PER_CONVERSATION
        THEN Reply(FALSE, "Max turns reached (3)")
        ELSE IF conversation_id \in DOMAIN convs
                /\ t - convs[conversation_id].started_at
                     > CONVERSATION_TIMEOUT_MINUTES * 60
        THEN Reply(FALSE, "Conversation timed out")
        ELSE IF source = "nanobot"
        THEN Reply(FALSE, "Won't respond to own messages")
        ELSE Reply(TRUE, "OK")

\* The file check_safeguards leaves behind: the one it found (it calls
\* load_state and never save_state).
check_safeguards_file(f, t, conversation_id, source) == f

NewConversation(conversation_id, source, t) ==
    [id |-> conversation_id, started_at |-> t, turns |-> 0,
     last_message_at |-> t, completed |-> FALSE, source |-> source,
     end_reason |-> NoReason]

\* Extend or overwrite one key of a dict.
Put(d, k, v) == [x \in DOMAIN d \cup {k} |-> IF x = k THEN v ELSE d[x]]

\* start_conversation: the state it RETURNS.  It adds the record to the
\* state it loaded and returns that state; it never calls save_state.
start_conversation(f, t, conversation_id, source) ==
    LET state == load_state(f)
    IN  IF conversation_id \notin DOMAIN state.conversations
        THEN [state EXCEPT !.conversations =
                 Put(@, conversation_id,
                     NewConversation(conversation_id, source, t))]
        ELSE state

\* The file start_conversation leaves behind: the one it found.
start_conversation_file(f, t, conversation_id, source) == f

\* Faulty variant: the state to save built from the call's own record.
record_turn_loaded_own_only(state, t, conversation_id) ==
    LET kept == DOMAIN state.conversations \cap {conversation_id}
    IN  [conversations |->
             [c \in kept |->
                  [state.conversations[c] EXCEPT
                     !.turns = @ + 1, !.last_message_at = t]],
         last_response_at |-> <<t>>]

\* Faulty variant: an unreadable file left as it is.
record_turn_skips_unreadable(f, t, conversation_id) ==
    IF f.kind = "corrupt" THEN f
    ELSE LET state == load_state(f)
             s1 == IF conversation_id \in DOMAIN state.conversations
                   THEN [state EXCEPT
                           !.conversations[conversation_id].turns = @ + 1,
                           !.conversations[conversation_id].last_message_at = t]
                   ELSE state
         IN  save_state([s1 EXCEPT !.last_response_at = <<t>>])

\* record_turn between load_state and save_state: the state it saves, from
\* the state it loaded.
record_turn_loaded(state, t, conversation_id) ==
    LET s1 == IF conversation_id \in DOMAIN state.conversations
              THEN [state EXCEPT
                      !.conversations[conversation_id].turns = @ + 1,
                      !.conversations[conversation_id].last_message_at = t]
              ELSE state
    IN  [s1 EXCEPT !.last_response_at = <<t>>]

\* record_turn: the file it leaves behind.
record_turn(f, t, conversation_id) ==
    save_state(record_turn_loaded(load_state(f), t, conversation_id))

\* Faulty variant: ending a conversation also clears the cooldown.
end_conversation_clears_cooldown(f, conversation_id, reason) ==
    LET state == load_state(f)
        s1 == IF conversation_id \in DOMAIN state.conversations
              THEN [state EXCEPT
                      !.conversations[conversation_id].completed = TRUE,
                      !.conversations[conversation_id].end_reason = reason]
              ELSE state
    IN  save_state([s1 EXCEPT !.last_response_at = None])

\* end_conversation between load_state and save_state: the state it
\* saves, from the state it loaded.
end_conversation_loaded(state, conversation_id, reason) ==
    IF conversation_id \in DOMAIN state.conversations
    THEN [state EXCEPT
            !.conversations[conversation_id].completed = TRUE,
            !.conversations[conversation_id].end_reason = reason]
    ELSE state

\* end_conversation: the file it leaves behind.
end_conversation(f, conversation_id, reason) ==
    save_state(end_conversation_loaded(load_state(f), conversation_id,
                                       reason))

\* Faulty variant: started <= cutoff in the place of started < cutoff.
to_remove_le(f, t, max_age_hours) ==
    LET state == load_state(f)
    IN  {c \in DOMAIN state.conversations :
            state.conversations[c].started_at
              <= t - max_age_hours * SecondsPerHour}

\* The ids cleanup_old_conversations removes.
to_remove(f, t, max_age_hours) ==
    LET state == load_state(f)
    IN  {c \in DOMAIN state.conversations :
            state.conversations[c].started_at
              < t - max_age_hours * SecondsPerHour}

\* Faulty variant: the kept records saved in a state built anew.
cleanup_old_conversations_fresh(f, t, max_age_hours) ==
    LET state == load_state(f)
        gone  == to_remove(f, t, max_age_hours)
    IN  save_state([DefaultState EXCEPT !.conversations =
                      [c \in (DOMAIN state.conversations) \ gone |->
                           state.conversations[c]]])

\* cleanup_old_conversations: the file it leaves behind; it returns
\* Cardinality(to_remove(...)).
cleanup_old_conversations(f, t, max_age_hours) ==
    LET state == load_state(f)
        gone  == to_remove(f, t, max_age_hours)
    IN  save_state([state EXCEPT !.conversations =
                      [c \in (DOMAIN @) \ gone |-> @[c]]])

(***************************************************************************)
(* Texts: conversation.py works on str; a text is a sequence of            *)
(* one-character strings.                                                  *)
(***************************************************************************)
UpperCase == <<"A", "B", "C", "D", "E", "F", "G", "H", "I", "J", "K", "L",
               "M", "N", "O", "P", "Q", "R", "S", "T", "U", "V", "W", "X",
               "Y", "Z", "Ä", "Ö", "Ü">>
LowerCase == <<"a", "b", "c", "d", "e", "f", "g", "h", "i", "j", "k", "l",
               "m", "n", "o", "p", "q", "r", "s", "t", "u", "v", "w", "x",
               "y", "z", "ä", "ö", "ü">>
Whitespace == {" ", "\t", "\n"}
Digits == <<"0", "1", "2", "3", "4", "5", "6", "7", "8", "9">>

\* str.lower() on one character.
lower_char(ch) ==
    IF \E i \in DOMAIN UpperCase : UpperCase[i] = ch
    THEN LowerCase[CHOOSE i \in DOMAIN UpperCase : UpperCase[i] = ch]
    ELSE ch

\* str.lower()
lower(s) == [i \in 1..Len(s) |-> lower_char(s[i])]

\* str.strip(): without leading and trailing whitespace.
strip(s) ==
    LET keep == {i \in 1..Len(s) : s[i] \notin Whitespace}
    IN  IF keep = {} THEN <<>>
        ELSE SubSeq(s, CHOOSE i \in keep : \A j \in keep : i <= j,
                       CHOOSE i \in keep : \A j \in keep : i >= j)

\* x in s, for str: x occurs in s as a substring.
Contains(s, x) ==
    \E i \in 1..(Len(s) - Len(x) + 1) : SubSeq(s, i, i + Len(x) - 1) = x

IsDigit(ch) == \E i \in DOMAIN Digits : Digits[i] = ch
DigitValue(ch) == (CHOOSE i \in DOMAIN Digits : Digits[i] = ch) - 1

RECURSIVE IntOf(_)
\* int() of a text of decimal digits.
IntOf(ds) ==
    IF ds = <<>> THEN 0
    ELSE 10 * IntOf(SubSeq(ds, 1, Len(ds) - 1)) + DigitValue(ds[Len(ds)])

\* re.search(r'#?(\d+)', s): None (<<>>), or <<group 1>>, the first
\* maximal run of digits of s (a '#' before it is part of the match, not of
\* the group).
search_number(s) ==
    LET at == {i \in 1..Len(s) : IsDigit(s[i])}
    IN  IF at = {} THEN <<>>
        ELSE LET first == CHOOSE i \in at : \A j \in at : i <= j
                 ends  == {j \in first..Len(s) :
                              \A k \in first..j : IsDigit(s[k])}
                 last  == CHOOSE j \in ends : \A k \in ends : j >= k
             IN  <<SubSeq(s, first, last)>>

\* The words the dialog looks for.
ExitSignals == <<<<"d", "o", "n", "e">>, <<"f", "e", "r", "t", "i", "g">>, <<"e", "n", "d", "e">>, <<"n", "e", "i", "n">>, <<"k", "e", "i", "n", "s">>, <<"n", "i", "c", "h", "t", "s">>>>
YesWords == <<<<"j", "a">>, <<"y", "e", "s">>, <<"o", "k">>>>
NoWords == <<<<"n", "e", "i", "n">>, <<"n", "o">>, <<"n", "e", "e">>>>
W_kommentar == <<"k", "o", "m", "m", "e", "n", "t", "a", "r">>
W_analy == <<"a", "n", "a", "l", "y">>
W_zurueck == <<"z", "u", "r", "ü", "c", "k">>
W_start == <<"s", "t", "a", "r", "t">>

\* Faulty variant: x == s in the place of x in s.
AnyIn_exact(words, s) == \E i \in DOMAIN words : words[i] = s

\* any(x in s for x in words)
AnyIn(words, s) == \E i \in DOMAIN words : Contains(s, words[i])
\* s in words
OneOf(words, s) == \E i \in DOMAIN words : words[i] = s

\* The prompts a peer sends to /chat; <<>> is the empty prompt, which the
\* endpoint replaces by "start".
Prompts == {<<>>, <<"7">>, <<"f", "e", "r", "t", "i", "g">>}

\* What a peer says in the dialog: an issue number, the action keywords as
\* the responses offer them, yes and no, back, a word the dialog does not
\* know, the exit word, and one input that holds an exit word in capitals
\* next to an issue number and an action keyword.
T_7 == <<"7">>
T_kommentare == <<"k", "o", "m", "m", "e", "n", "t", "a", "r", "e">>
T_analysieren == <<"a", "n", "a", "l", "y", "s", "i", "e", "r", "e", "n">>
T_ja == <<"j", "a">>
T_no == <<"n", "o">>
T_zurueck == <<"z", "u", "r", "ü", "c", "k">>
T_fertig == <<"f", "e", "r", "t", "i", "g">>
T_ENDE_7_analysieren == <<"E", "N", "D", "E", " ", "#", "7", " ", "a", "n", "a", "l", "y", "s", "i", "e", "r", "e", "n">>
\* A hash-prefixed number with a keyword after it, and a number no issue
\* has.
T_12_zurueck == <<"#", "1", "2", " ", "z", "u", "r", "ü", "c", "k">>
T_42 == <<"4", "2">>
\* The other words of the yes and no families, one of them in capitals
\* with a blank after it.
T_yes == <<"y", "e", "s">>
T_OK == <<"O", "K", " ">>
T_nein == <<"n", "e", "i", "n">>
T_nee == <<"n", "e", "e">>
DialogTexts ==
    {T_7, T_kommentare, T_analysieren, T_ja, T_no, T_zurueck, W_start,
     T_fertig, T_ENDE_7_analysieren, T_12_zurueck, T_42}

\* What a peer says on the way to a confirmation and in answer to it: the
\* issue number, the analysis keyword, back, and every word of the yes and
\* no families.
ConfirmTexts ==
    {T_7, T_analysieren, T_zurueck, T_ja, T_yes, T_OK, T_nein, T_no, T_nee}

Texts == Prompts \cup {W_start} \cup DialogTexts \cup ConfirmTexts

\* Everything handle_github_dialog reads off user_input, computed once for
\* each text: user_lower = user_input.lower().strip(), the exit test of
\* line 161, the number search of line 176 and the keyword tests of lines
\* 214, 233, 253, 287 and 302.
scan(user_input) ==
    LET user_lower == strip(lower(user_input))
        match == search_number(user_input)
    IN  [exit      |-> AnyIn(ExitSignals, user_lower),
         number    |-> IF match = <<>> THEN <<>> ELSE <<IntOf(match[1])>>,
         kommentar |-> Contains(user_lower, W_kommentar),
         analy     |-> Contains(user_lower, W_analy),
         yes       |-> OneOf(YesWords, user_lower),
         no        |-> OneOf(NoWords, user_lower),
         zurueck   |-> Contains(user_lower, W_zurueck)]
Scanned == [x \in Texts |-> scan(x)]

(***************************************************************************)
(* The dialog store: conversation.py                                       *)
(***************************************************************************)
\* load_conversations: the parsed file, or {} when the file is absent or
\* json.loads raises.
load_conversations(f) == IF f.kind = "json" THEN f.data ELSE <<>>

\* save_conversations
save_conversations(convs) == [kind |-> "json", data |-> convs]

\* get_conversation: None (<<>>) or <<the session>>.
get_conversation(f, conv_id) ==
    LET convs == load_conversations(f)
    IN  IF conv_id \in DOMAIN convs THEN <<convs[conv_id]>> ELSE None

\* create_conversation: the file it leaves behind.
create_conversation(f, t, conv_id, topic, initial_context) ==
    save_conversations(
        Put(load_conversations(f), conv_id,
            [id |-> conv_id, topic |-> topic, messages |-> <<>>,
             context |-> initial_context, turn |-> 0, status |-> "active",
             created_at |-> t]))

\* Faulty variant: the message list rebuilt from the new message alone.
add_message_replaces(f, t, conv_id, role, content) ==
    LET convs == load_conversations(f)
    IN  IF conv_id \notin DOMAIN convs THEN f
        ELSE save_conversations(
                 [convs EXCEPT
                    ![conv_id].messages =
                        <<[role |-> role, content |-> content,
                           timestamp |-> t]>>,
                    ![conv_id].turn = @ + 1])

\* Faulty variant: the message appended and the counter left as it is.
add_message_no_turn(f, t, conv_id, role, content) ==
    LET convs == load_conversations(f)
    IN  IF conv_id \notin DOMAIN convs THEN f
        ELSE save_conversations(
                 [convs EXCEPT
                    ![conv_id].messages =
                        Append(@, [role |-> role, content |-> content,
                                   timestamp |-> t])])

\* add_message: the file it leaves behind (untouched for an unknown id).
add_message(f, t, conv_id, role, content) ==
    LET convs == load_conversations(f)
    IN  IF conv_id \notin DOMAIN convs THEN f
        ELSE save_conversations(
                 [convs EXCEPT
                    ![conv_id].messages =
                        Append(@, [role |-> role, content |-> content,
                                   timestamp |-> t]),
                    ![conv_id].turn = @ + 1])

\* Faulty variant: the context changed in the loaded dict and never saved.
update_context_unsaved(f, conv_id, key, value) == f

\* Faulty variant: the pending flag never set back to False.
update_context_keeps_flag(f, conv_id, key, value) ==
    LET convs == load_conversations(f)
    IN  IF conv_id \in DOMAIN convs
           /\ ~(key = "waiting_for_claude" /\ value = FALSE)
        THEN save_conversations(
                 [convs EXCEPT ![conv_id].context = Put(@, key, value)])
        ELSE f

\* update_context: the file it leaves behind.
update_context(f, conv_id, key, value) ==
    LET convs == load_conversations(f)
    IN  IF conv_id \in DOMAIN convs
        THEN save_conversations(
                 [convs EXCEPT ![conv_id].context = Put(@, key, value)])
        ELSE f

\* conversation.end_conversation: the file it leaves behind.
conv_end_conversation(f, conv_id) ==
    LET convs == load_conversations(f)
    IN  IF conv_id \in DOMAIN convs
        THEN save_conversations([convs EXCEPT ![conv_id].status = "done"])
        ELSE f

\* dict.get(key, default)
Get(d, key, default) == IF key \in DOMAIN d THEN d[key] ELSE default

(***************************************************************************)
(* The issue dialog: handle_github_dialog                                  *)
(***************************************************************************)
\* What a message holds.  A peer message holds the input text; a response
\* is the f-string of the code reduced to what it is built from: which
\* response it is, the issue number in it, the issue numbers it lists and
\* whether the optional part (body, comments) is shown.
Content(kind, text, num, items, flag) ==
    [kind |-> kind, text |-> text, num |-> num, items |-> items,
     flag |-> flag]
InputContent(user_input) == Content("input", user_input, None, <<>>, FALSE)

\* Faulty variant: the whole list in the place of list[:n].
Take_all(list, n) == list

\* list[:n]
Take(list, n) == SubSeq(list, 1, IF Len(list) < n THEN Len(list) ELSE n)
NumbersOf(list) == [i \in 1..Len(list) |-> list[i].number]
\* f"#{issue['number']}" for each element
Refs(list) == [i \in 1..Len(list) |-> "#" \o ToString(list[i].number)]

\* Faulty variant: n taken for the position in the numbered listing.
find_issue_by_position(issues, n) ==
    IF n \in 1..Len(issues) THEN <<issues[n]>> ELSE <<>>

\* Faulty variant: the first issue in the place of the default.
find_issue_or_first(issues, n) ==
    LET at == {i \in 1..Len(issues) : issues[i].number = n}
    IN  IF at # {} THEN <<issues[CHOOSE i \in at : \A j \in at : i <= j]>>
        ELSE IF issues # <<>> THEN <<issues[1]>>
        ELSE <<>>

\* next((i for i in issues if i["number"] == n), default): <<>> stands for
\* the default.
find_issue(issues, n) ==
    LET at == {i \in 1..Len(issues) : issues[i].number = n}
    IN  IF at = {} THEN <<>>
        ELSE <<issues[CHOOSE i \in at : \A j \in at : i <= j]>>

\* bool(selected): None and 0 are false.
Truthy(selected) == selected # None /\ selected[1] # 0

NoWaiting == "<None>"

\* Faulty variant: the session reported done once ask_claude has been
\* called.
Result_done_after_claude(f, response, options, waiting_for, done, calls) ==
    [file |-> f, response |-> response, options |-> options,
     waiting_for |-> waiting_for,
     done |-> done \/ calls = <<"ask_claude">>, calls |-> calls]

Result(f, response, options, waiting_for, done, calls) ==
    [file |-> f, response |-> response, options |-> options,
     waiting_for |-> waiting_for, done |-> done, calls |-> calls]

\* Faulty variant: no fail-soft, the list handed on whether or not the gh
\* call succeeded.
_get_issues_no_failsoft(ext) == ext.issues

\* _get_issues: the list gh prints, or [] when gh exits non-zero, times
\* out or prints what json.loads cannot parse.
_get_issues(ext) == IF ext.gh_ok THEN ext.issues ELSE <<>>

\* What ask_claude hands back.
ClaudeAnswer == <<"Label the crash and guard the start-up path.">>
ClaudeFailure == <<"Request timed out">>

\* ask_claude: (success, text).  On exit code 0 the text is the answer; on
\* a missing script, another exit code, a timeout or an exception it is the
\* error text.
ask_claude(ext) ==
    IF ext.claude THEN [success |-> TRUE, text |-> ClaudeAnswer]
    ELSE [success |-> FALSE, text |-> ClaudeFailure]

\* Faulty variant: a failure reported without what the executor said.
claude_response_generic(answer, selected) ==
    IF answer.success
    THEN Content("claude_answer", answer.text, selected, <<>>, TRUE)
    ELSE Content("claude_failed", <<>>, selected, <<>>, FALSE)

\* The response built from what ask_claude returned: the answer under the
\* heading of the selected issue, or the failure notice with the error
\* text in it.
claude_response(answer, selected) ==
    Content(IF answer.success THEN "claude_answer" ELSE "claude_failed",
            answer.text, selected, <<>>, answer.success)

\* handle_github_dialog on an id with no session.  ext holds what the
\* outside world answers during the call.
dialog_new(f, t, conv_id, repo, ext) ==
    LET f1 == create_conversation(f, t, conv_id, "GitHub: " \o repo,
                                  [k \in {"repo"} |-> repo])
        issues == _get_issues(ext)
        f2 == update_context(f1, conv_id, "issues", issues)
        shown == Take(issues, 5)
        response == Content("listing", <<>>, None, NumbersOf(shown), FALSE)
    IN  IF issues = <<>>
        THEN Result(f2, Content("no_issues", <<>>, None, <<>>, FALSE),
                    <<>>, NoWaiting, TRUE, <<"_get_issues">>)
        ELSE Result(add_message(f2, t, conv_id, "nanobot", response),
                    response, Refs(shown) \o <<"keins">>,
                    "issue_selection", FALSE, <<"_get_issues">>)

\* handle_github_dialog on an id with a session: conv is the session as
\* get_conversation returned it at the start of the call.
dialog_continue(f, t, conv_id, user_input, repo, ext, conv) ==
    LET f1 == add_message(f, t, conv_id, "argus", InputContent(user_input))
        in == Scanned[user_input]
        context == conv.context
        issues == Get(context, "issues", <<>>)
        issue_num == IF in.number = <<>> THEN 0 ELSE in.number[1]
        issue == IF in.number = <<>> THEN <<>>
                 ELSE find_issue(issues, issue_num)
        selected == Get(context, "selected_issue", None)
        waiting == Get(context, "waiting_for_claude", FALSE)
        say(g, response, options, waiting_for, calls) ==
            Result(add_message(g, t, conv_id, "nanobot", response),
                   response, options, waiting_for, FALSE, calls)
    IN  IF in.exit
        THEN Result(conv_end_conversation(f1, conv_id),
                    Content("bye", <<>>, None, <<>>, FALSE),
                    <<>>, NoWaiting, TRUE, <<>>)
        ELSE IF in.number # <<>> /\ issue # <<>>
        THEN say(update_context(f1, conv_id, "selected_issue", <<issue_num>>),
                 Content("issue", <<>>, <<issue_num>>, <<>>, ext.body),
                 <<"kommentare", "analysieren", "zurück", "fertig">>,
                 "action_selection", <<"_get_issue_details">>)
        ELSE IF Truthy(selected) /\ in.kommentar
        THEN say(f1, Content("comments", <<>>, selected, <<>>, ext.comments),
                 <<"analysieren", "zurück", "fertig">>,
                 "action_selection", <<"_get_issue_comments">>)
        ELSE IF Truthy(selected) /\ in.analy
        THEN LET response == Content("analysis", <<>>, selected, <<>>, FALSE)
                 g == add_message(f1, t, conv_id, "nanobot", response)
             IN  Result(update_context(g, conv_id, "waiting_for_claude", TRUE),
                        response, <<"ja", "nein">>, "claude_decision", FALSE,
                        <<>>)
        ELSE IF waiting /\ in.yes
        THEN say(update_context(f1, conv_id, "waiting_for_claude", FALSE),
                 claude_response(ask_claude(ext), selected),
                 <<"zurück", "fertig">>, "post_claude", <<"ask_claude">>)
        ELSE IF waiting /\ in.no
        THEN say(update_context(f1, conv_id, "waiting_for_claude", FALSE),
                 Content("declined", <<>>, None, <<>>, FALSE),
                 <<"zurück", "fertig">>, "action_selection", <<>>)
        ELSE IF in.zurueck
        THEN LET shown == Take(issues, 5)
             IN  say(update_context(
                         update_context(f1, conv_id, "selected_issue", None),
                         conv_id, "waiting_for_claude", FALSE),
                     Content("back", <<>>, None, NumbersOf(shown), FALSE),
                     Refs(shown) \o <<"fertig">>, "issue_selection", <<>>)
        ELSE say(f1, Content("clarify", <<>>, None, <<>>, FALSE),
                 <<"zurück", "fertig">>, "clarification", <<>>)

\* handle_github_dialog
handle_github_dialog(f, t, conv_id, user_input, repo, ext) ==
    LET conv == get_conversation(f, conv_id)
    IN  IF conv = None
        THEN dialog_new(f, t, conv_id, repo, ext)
        ELSE dialog_continue(f, t, conv_id, user_input, repo, ext, conv[1])

(***************************************************************************)
(* What an operation reports                                               *)
(***************************************************************************)
\* op: the operation; id, arg: its arguments; ok, text, n: what it
\* returned; out: the result dict of a dialog step (NoOut otherwise).
NoOut == <<>>
Resp(op, id, arg, ok, text, n) ==
    [op |-> op, id |-> id, arg |-> arg, ok |-> ok, text |-> text, n |-> n,
     out |-> NoOut]

NoResp == Resp("none", "", "", FALSE, "", 0)

(***************************************************************************)
(* Calls in flight                                                         *)
(***************************************************************************)
\* record_turn and end_conversation load the whole state into a local
\* variable, change it and save it whole.  A call in flight is at "idle"
\* (not begun), "loaded" (state holds what load_state returned at time t)
\* or "done" (saved).  overlapped records that a call loaded while another
\* had loaded and not yet saved.
Workers == {"w1", "w2"}
IdleCall == [pc |-> "idle", op |-> "", id |-> "", state |-> DefaultState,
             t |-> 0]
NoCalls == [calls |-> [w \in Workers |-> IdleCall], overlapped |-> FALSE]

(***************************************************************************)
(* The protocol on its own: SpecP2P                                        *)
(* Any caller, any order of calls, over a state file found at start-up.    *)
(***************************************************************************)
\* The state file outlives the process: load_state reads whatever an
\* earlier run, an earlier version or an operator left there.  A file
\* found at start-up holds, for c1, no record or any record started at 0,
\* and for every other id no record or a record just started.
InitRecords(c) ==
    IF c = "c1"
    THEN {[id |-> c, started_at |-> 0, turns |-> n, last_message_at |-> 0,
           completed |-> d, source |-> "argus",
           end_reason |-> IF d THEN "completed" ELSE NoReason] :
             n \in 0..MAX_TURNS_PER_CONVERSATION, d \in BOOLEAN}
    ELSE {NewConversation(c, "argus", StartTime)}

RECURSIVE DictsOver(_)
\* Every dict whose keys are a subset of ids and whose values are
\* records a start-up file may hold.
DictsOver(ids) ==
    IF ids = {} THEN {<<>>}
    ELSE LET c == CHOOSE x \in ids : TRUE
             rest == DictsOver(ids \ {c})
         IN  rest \cup {Put(d, c, r) : d \in rest, r \in InitRecords(c)}

\* A file that does not exist, and one json.loads cannot parse.
NoFile == [kind |-> "absent", data |-> <<>>]
CorruptFile == [kind |-> "corrupt", data |-> <<>>]

InitFiles ==
    {NoFile, CorruptFile}
    \cup {save_state([conversations |-> d, last_response_at |-> l]) :
            d \in DictsOver(ConvIds),
            l \in {None} \cup {<<t>> : t \in InitTimes}}

InitP2P ==
    /\ now = StartTime
    /\ stateFile \in InitFiles
    /\ convFile = NoFile
    /\ resp = NoResp
    /\ inflight = NoCalls

\* Time passes between two calls.
Elapse(times) ==
    /\ \E t \in times : t > now /\ now' = t
    /\ resp' = Resp("tick", "", "", TRUE, "", 0)
    /\ UNCHANGED <<stateFile, convFile, inflight>>

Tick == Elapse(TimePoints)

CheckSafeguards ==
    \E c \in ConvIds, s \in Sources :
        LET r == check_safeguards(stateFile, now, c, s)
        IN  /\ resp' = Resp("check_safeguards", c, s, r.admit, r.reason, 0)
            /\ stateFile' = check_safeguards_file(stateFile, now, c, s)
            /\ UNCHANGED <<now, convFile, inflight>>

StartConversation ==
    \E c \in ConvIds, s \in Sources :
        LET st == start_conversation(stateFile, now, c, s)
        IN  /\ resp' = Resp("start_conversation", c, s, TRUE, "",
                            st.conversations[c].turns)
            /\ stateFile' = start_conversation_file(stateFile, now, c, s)
            /\ UNCHANGED <<now, convFile, inflight>>

TurnsOf(f, c) ==
    IF c \in DOMAIN load_state(f).conversations
    THEN load_state(f).conversations[c].turns
    ELSE 0

RecordTurn ==
    \E c \in ConvIds :
        /\ TurnsOf(stateFile, c) < TurnCap
        /\ stateFile' = record_turn(stateFile, now, c)
        /\ resp' = Resp("record_turn", c, "", TRUE, "", 0)
        /\ UNCHANGED <<now, convFile, inflight>>

EndConversation ==
    \E c \in ConvIds, reason \in EndReasons :
        /\ stateFile' = end_conversation(stateFile, c, reason)
        /\ resp' = [Resp("end_conversation", c, reason, TRUE, "", 0)
                      EXCEPT !.out =
                          [before |->
                              IF c \in DOMAIN load_state(stateFile).conversations
                              THEN <<load_state(stateFile).conversations[c]>>
                              ELSE None]]
        /\ UNCHANGED <<now, convFile, inflight>>

CleanupOldConversations ==
    /\ stateFile' =
         cleanup_old_conversations(stateFile, now, DefaultMaxAgeHours)
    /\ resp' = Resp("cleanup_old_conversations", "", "", TRUE, "",
                    Cardinality(to_remove(stateFile, now, DefaultMaxAgeHours)))
    /\ UNCHANGED <<now, convFile, inflight>>

NextP2P ==
    \/ Tick
    \/ CheckSafeguards
    \/ StartConversation
    \/ RecordTurn
    \/ EndConversation
    \/ CleanupOldConversations

SpecP2P == InitP2P /\ [][NextP2P]_vars

(***************************************************************************)
(* Requests one after another: SpecAdmitted                                *)
(* The protocol as its callers use it: a turn is recorded only for the     *)
(* request that check_safeguards has just admitted, once the response is   *)
(* generated.                                                              *)
(***************************************************************************)
\* record_turn for the call check_safeguards admitted last, at the time t2
\* the response is ready.  out keeps the stamp found in the file (before)
\* and the time of the check.
AnswerAdmitted ==
    \E c \in ConvIds, t2 \in {now} \cup {u \in TimePoints : u > now} :
        /\ resp.op = "check_safeguards" /\ resp.ok /\ resp.id = c
        /\ TurnsOf(stateFile, c) < TurnCap
        /\ now' = t2
        /\ stateFile' = record_turn(stateFile, t2, c)
        /\ resp' = [Resp("record_turn", c, "", TRUE, "", 0)
                      EXCEPT !.out =
                          [before |-> load_state(stateFile).last_response_at,
                           checked |-> now]]
        /\ UNCHANGED <<convFile, inflight>>

NextAdmitted ==
    \/ Tick
    \/ CheckSafeguards
    \/ StartConversation
    \/ AnswerAdmitted
    \/ EndConversation
    \/ CleanupOldConversations

SpecAdmitted == InitP2P /\ [][NextAdmitted]_vars

(***************************************************************************)
(* The relay: the endpoints of server.py over both files: Spec             *)
(***************************************************************************)
\* What the tracker may list (_get_issues; <<>> also when gh fails).
Issue(n, title, labels, comments) ==
    [number |-> n, title |-> title, author |-> "doobidoo",
     created |-> "2026-01-01", labels |-> labels, comments |-> comments]
Issue7 == Issue(7, "crash on start", <<"bug">>, 6)
Issue12 == Issue(12, "add export", <<>>, 0)
IssueLists == {<<>>, <<Issue7, Issue12>>}

\* What the outside world answers during one dialog step: the tracker's
\* open issues, whether the gh call for them succeeds, whether the issue
\* has a body, whether it has comments, whether ask_claude succeeds.
Externals ==
    [issues : IssueLists, gh_ok : BOOLEAN, body : BOOLEAN,
     comments : BOOLEAN, claude : BOOLEAN]

\* The same for the relay, whose prompts reach neither the comments nor
\* ask_claude.
RelayExternals == {e \in Externals : e.gh_ok /\ ~e.comments /\ ~e.claude}

Owner == "doobidoo"
Repo == "mcp-memory-service"
full_repo == Owner \o "/" \o Repo
chat_id == "chat-" \o Owner \o "-" \o Repo

\* strftime('%Y%m%d-%H%M'): the clock to the minute.
MinuteStamp(t) == ToString(t \div 60)
digest_id(t) == "digest-" \o MinuteStamp(t)
github_id(t) == "github-" \o Owner \o "-" \o Repo \o "-" \o MinuteStamp(t)

\* The conversation_id query parameter; "" when the caller gives none.
RequestIds == {"", "c1"}

\* Clock values at or after t.
AtOrAfter(t) == {t} \cup {u \in RelayTimes : u > t}

\* The body shared by daily_digest and github_watch: the file it leaves
\* behind and what it answers.  t is the clock when the request arrives,
\* t2 the clock once the report is generated, raises whether generating
\* it raised.
safeguarded_report(f, t, t2, conversation_id, raises, end_reason) ==
    LET check == check_safeguards(f, t, conversation_id, "argus")
        f0 == start_conversation_file(f, t, conversation_id, "argus")
    IN  IF ~check.admit
        THEN [file |-> f, success |-> FALSE, blocked |-> TRUE,
              reason |-> check.reason, completed |-> FALSE, status |-> 200]
        ELSE IF raises
        THEN [file |-> end_conversation(f0, conversation_id, "error"),
              success |-> FALSE, blocked |-> FALSE, reason |-> "",
              completed |-> FALSE, status |-> 500]
        ELSE [file |-> cleanup_old_conversations(
                           end_conversation(
                               record_turn(f0, t2, conversation_id),
                               conversation_id, end_reason),
                           t2, DefaultMaxAgeHours),
              success |-> TRUE, blocked |-> FALSE, reason |-> "",
              completed |-> TRUE, status |-> 200]

\* GET /digest
daily_digest(f, t, t2, conversation_id, raises) ==
    safeguarded_report(f, t, t2,
        IF conversation_id = "" THEN digest_id(t) ELSE conversation_id,
        raises, "digest_complete")

\* GET /github/{owner}/{repo}
github_watch(f, t, t2, conversation_id, raises) ==
    safeguarded_report(f, t, t2,
        IF conversation_id = "" THEN github_id(t) ELSE conversation_id,
        raises, "github_report_complete")

ReportResp(op, id, r, turns) ==
    [op |-> op, id |-> id, arg |-> "", ok |-> r.success, text |-> r.reason,
     n |-> turns,
     out |-> [blocked |-> r.blocked, completed |-> r.completed,
              status |-> r.status]]

DailyDigest ==
    \E c \in RequestIds, raises \in BOOLEAN, t2 \in AtOrAfter(now) :
        LET r == daily_digest(stateFile, now, t2, c, raises)
        IN  /\ stateFile' = r.file
            /\ now' = IF r.blocked THEN now ELSE t2
            /\ resp' = ReportResp("daily_digest",
                                  IF c = "" THEN digest_id(now) ELSE c, r,
                                  IF r.success THEN 1 ELSE 0)
            /\ UNCHANGED <<convFile, inflight>>

GithubWatch ==
    \E c \in RequestIds, raises \in BOOLEAN, t2 \in AtOrAfter(now) :
        LET r == github_watch(stateFile, now, t2, c, raises)
        IN  /\ stateFile' = r.file
            /\ now' = IF r.blocked THEN now ELSE t2
            /\ resp' = ReportResp("github_watch",
                                  IF c = "" THEN github_id(now) ELSE c, r, 0)
            /\ UNCHANGED <<convFile, inflight>>

\* The messages stored for a session (none when there is no session).
MessagesOf(f, c) ==
    IF c \in DOMAIN load_conversations(f)
    THEN load_conversations(f)[c].messages ELSE <<>>

\* POST /chat/{owner}/{repo}: the dialog step on request.prompt or "start".
github_chat(f, t, prompt, ext) ==
    handle_github_dialog(f, t, chat_id,
                         IF prompt = <<>> THEN W_start ELSE prompt,
                         full_repo, ext)

GithubChat ==
    \E prompt \in Prompts, ext \in RelayExternals :
        LET r == github_chat(convFile, now, prompt, ext)
        IN  /\ Len(MessagesOf(convFile, chat_id)) < MaxMessages
            /\ convFile' = r.file
            /\ resp' = [op |-> "github_chat", id |-> chat_id, arg |-> "",
                        ok |-> TRUE, text |-> "", n |-> 0,
                        out |-> [response |-> r.response,
                                 options |-> r.options,
                                 waiting_for |-> r.waiting_for,
                                 done |-> r.done, calls |-> r.calls,
                                 input |-> prompt]]
            /\ UNCHANGED <<now, stateFile, inflight>>

\* DELETE /chat/{owner}/{repo}
end_chat(f) ==
    IF get_conversation(f, chat_id) # None
    THEN conv_end_conversation(f, chat_id)
    ELSE f

EndChat ==
    /\ convFile' = end_chat(convFile)
    /\ resp' = Resp("end_chat", chat_id, "",
                    get_conversation(convFile, chat_id) # None, "",
                    IF get_conversation(convFile, chat_id) # None
                    THEN get_conversation(convFile, chat_id)[1].turn ELSE 0)
    /\ UNCHANGED <<now, stateFile, inflight>>

\* DELETE /p2p/state: the state file is unlinked.
clear_p2p_state(f) == NoFile

ClearP2PState ==
    /\ stateFile' = clear_p2p_state(stateFile)
    /\ resp' = Resp("clear_p2p_state", "", "", TRUE, "cleared", 0)
    /\ UNCHANGED <<now, convFile, inflight>>

\* A fresh deployment: neither file exists.
Init ==
    /\ now = StartTime
    /\ stateFile = NoFile
    /\ convFile = NoFile
    /\ resp = NoResp
    /\ inflight = NoCalls

RelayTick == Elapse(RelayTimes)

Next ==
    \/ RelayTick
    \/ DailyDigest
    \/ GithubWatch
    \/ GithubChat
    \/ EndChat
    \/ ClearP2PState

Spec == Init /\ [][Next]_vars

(***************************************************************************)
(* The dialog on its own: SpecDialog                                       *)
(* Any caller of handle_github_dialog, with everything a peer may say.     *)
(***************************************************************************)
\* A tracker with more open issues than the dialog presents.
SixIssues ==
    <<Issue7, Issue12, Issue(13, "typo in readme", <<>>, 1),
      Issue(14, "slow search", <<"bug">>, 2),
      Issue(15, "dark mode", <<>>, 0), Issue(16, "update deps", <<>>, 0)>>

\* What the outside world answers to the calls one dialog step makes.  At
\* first contact the one call is _get_issues.  A later step makes at most
\* one call (_get_issue_details, _get_issue_comments or ask_claude), and b
\* is what that call brings: a body, comments, an answer, or nothing.
DialogExternals(conv) ==
    IF conv = None
    THEN [issues : IssueLists \cup {SixIssues}, gh_ok : BOOLEAN,
          body : {FALSE}, comments : {FALSE}, claude : {FALSE}]
    ELSE {[issues |-> <<>>, gh_ok |-> TRUE, body |-> b, comments |-> b,
           claude |-> b] : b \in BOOLEAN}

\* One call of handle_github_dialog.  Next to the returned dict, out keeps
\* the input, the session as get_conversation returned it at the start of
\* the call (before), what ask_claude returned when the step called it
\* (executor) and how the gh call for the issue list went.
DialogStep(inputs) ==
    \E user_input \in inputs :
      \E ext \in DialogExternals(get_conversation(convFile, chat_id)) :
        LET before == get_conversation(convFile, chat_id)
            r == handle_github_dialog(convFile, now, chat_id, user_input,
                                      full_repo, ext)
        IN  /\ Len(MessagesOf(convFile, chat_id)) < MaxDialogMessages
            /\ convFile' = r.file
            /\ resp' = [op |-> "handle_github_dialog", id |-> chat_id,
                        arg |-> "", ok |-> TRUE, text |-> "", n |-> 0,
                        out |-> [response |-> r.response,
                                 options |-> r.options,
                                 waiting_for |-> r.waiting_for,
                                 done |-> r.done, calls |-> r.calls,
                                 input |-> user_input, before |-> before,
                                 executor |->
                                     IF r.calls = <<"ask_claude">>
                                     THEN <<ask_claude(ext)>> ELSE None,
                                 tracker |->
                                     IF before # None THEN "unused"
                                     ELSE IF ext.gh_ok THEN "ok"
                                     ELSE "failed"]]
            /\ UNCHANGED <<now, stateFile, inflight>>

HandleGithubDialog == DialogStep(DialogTexts)

NextDialog ==
    \/ HandleGithubDialog
    \/ EndChat

SpecDialog == Init /\ [][NextDialog]_vars

(***************************************************************************)
(* The confirmation: SpecConfirm                                           *)
(* The dialog with every word of the yes and no families.                  *)
(***************************************************************************)
ConfirmationDialog == DialogStep(ConfirmTexts)

NextConfirm ==
    \/ ConfirmationDialog
    \/ EndChat

SpecConfirm == Init /\ [][NextConfirm]_vars

(***************************************************************************)
(* Two callers at once: SpecConc                                           *)
(* Two calls of record_turn or end_conversation, one on c1 and one on c2,  *)
(* whose load and save steps may fall in any order.                        *)
(***************************************************************************)
\* The conversation a worker's call is about.
WorkerId(w) == IF w = "w1" THEN "c1" ELSE "c2"
ConcOps == {"record_turn", "end_conversation"}

\* The call reaches its load_state() and reads the clock.
BeginCall ==
    \E w \in Workers, op \in ConcOps :
        /\ inflight.calls[w].pc = "idle"
        /\ inflight' =
             [calls |-> [inflight.calls EXCEPT ![w] =
                            [pc |-> "loaded", op |-> op, id |-> WorkerId(w),
                             state |-> load_state(stateFile), t |-> now]],
              overlapped |->
                  \/ inflight.overlapped
                  \/ \E v \in Workers \ {w} :
                         inflight.calls[v].pc = "loaded"]
        /\ resp' = Resp("load_state", WorkerId(w), op, TRUE, "", 0)
        /\ UNCHANGED <<now, stateFile, convFile>>

\* The call changes the state it loaded and reaches its save_state().
FinishCall ==
    \E w \in Workers :
        LET call == inflight.calls[w]
        IN  /\ call.pc = "loaded"
            /\ stateFile' =
                 save_state(
                     IF call.op = "record_turn"
                     THEN record_turn_loaded(call.state, call.t, call.id)
                     ELSE end_conversation_loaded(call.state, call.id,
                                                  "digest_complete"))
            /\ inflight' = [inflight EXCEPT !.calls[w].pc = "done"]
            /\ resp' = Resp(call.op, call.id, "", TRUE, "", 0)
            /\ UNCHANGED <<now, convFile>>

NextConc ==
    \/ RelayTick
    \/ BeginCall
    \/ FinishCall

SpecConc == InitP2P /\ [][NextConc]_vars

(***************************************************************************)
(* Unreadable files: SpecStores                                            *)
(* Both files exist and cannot be parsed; every operation of both stores   *)
(* runs on them.                                                           *)
(***************************************************************************)
InitStores ==
    /\ now = StartTime
    /\ stateFile = CorruptFile
    /\ convFile = CorruptFile
    /\ resp = NoResp
    /\ inflight = NoCalls

DialogStoreStep ==
    /\ Len(MessagesOf(convFile, chat_id)) < MaxStoreMessages
    /\ HandleGithubDialog

NextStores ==
    \/ RelayTick
    \/ CheckSafeguards
    \/ RecordTurn
    \/ EndConversation
    \/ CleanupOldConversations
    \/ DialogStoreStep
    \/ EndChat

SpecStores == InitStores /\ [][NextStores]_vars

(***************************************************************************)
(* Reading the state file                                                  *)
(***************************************************************************)
Records(f) == DOMAIN load_state(f).conversations
Conv(f, c) == load_state(f).conversations[c]
LastResponse(f) == load_state(f).last_response_at
Completed(f, c) == c \in Records(f) /\ Conv(f, c).completed
DeniedAll(f, t, c) ==
    \A s \in Sources : ~check_safeguards(f, t, c, s).admit

(***************************************************************************)
(* The five denial rules as section 4.1 of the specification words them,   *)
(* each on its own and not in the order of the code.                       *)
(***************************************************************************)
RuleCooldown(f, t) ==
    LastResponse(f) # None /\ t - LastResponse(f)[1] < 60
RuleCompleted(f, c) == c \in Records(f) /\ Conv(f, c).completed = TRUE
RuleTurnBudget(f, c) == c \in Records(f) /\ Conv(f, c).turns >= 3
RuleExpired(f, t, c) ==
    c \in Records(f) /\ t - Conv(f, c).started_at > 5 * 60
RuleSelfOrigin(source) == source = "nanobot"

IsCheck == resp.op = "check_safeguards"

\* C1: check_safeguards(id, source) admits, with reason "OK", exactly when
\* none of the five denial rules applies at the time of the call, and
\* denies in every other case.
C1_AdmitIffNoRuleApplies ==
    IsCheck =>
        /\ resp.ok <=> ~ \/ RuleCooldown(stateFile, now)
                         \/ RuleCompleted(stateFile, resp.id)
                         \/ RuleTurnBudget(stateFile, resp.id)
                         \/ RuleExpired(stateFile, now, resp.id)
                         \/ RuleSelfOrigin(resp.arg)
        /\ resp.ok <=> resp.text = "OK"

\* C1 witness: a call on a recorded, open conversation was admitted, and
\* the cooldown had run out exactly (60 s after the last response).
C1_Witness ==
    /\ IsCheck /\ resp.ok
    /\ resp.id \in Records(stateFile)
    /\ LastResponse(stateFile) # None
    /\ now - LastResponse(stateFile)[1] = 60

\* C2: with last_response_at set at T, every call at a time in [T, T+60)
\* is denied by the cooldown, whatever the id and the source; from T+61 on
\* the cooldown does not deny, and a call no other rule denies is admitted.
C2_CooldownWindow ==
    IsCheck /\ LastResponse(stateFile) # None =>
        LET T == LastResponse(stateFile)[1]
        IN  /\ (T <= now /\ now < T + 60) =>
                    ~resp.ok /\ resp.text = "Cooldown active (60s)"
            /\ now >= T + 61 =>
                    /\ resp.text # "Cooldown active (60s)"
                    /\ ~ \/ RuleCompleted(stateFile, resp.id)
                         \/ RuleTurnBudget(stateFile, resp.id)
                         \/ RuleExpired(stateFile, now, resp.id)
                         \/ RuleSelfOrigin(resp.arg)
                       => resp.ok

\* C2 witness: a call 61 s after the last response was admitted.
C2_Witness ==
    /\ IsCheck /\ resp.ok
    /\ LastResponse(stateFile) # None
    /\ now = LastResponse(stateFile)[1] + 61

\* C3 as claimed: once a record is completed, a check for its id denies in
\* every later state, whichever of record_turn, end_conversation and
\* cleanup_old_conversations ran in between.  (If it held, the state after
\* any one step from a completed record would deny.)
C3_NeverReopens ==
    [][\A c \in ConvIds :
          Completed(stateFile, c) => DeniedAll(stateFile', now', c)]_vars

\* C3 as amended: a completed record stays completed, and every check for
\* its id denies, for as long as the record is in the store; the one way
\* out is cleanup_old_conversations removing the record once started_at is
\* more than max_age_hours in the past.
C3_CompletedDeniesWhileStored ==
    [][\A c \in ConvIds :
          Completed(stateFile, c) =>
              IF c \in Records(stateFile')
              THEN Completed(stateFile', c) /\ DeniedAll(stateFile', now', c)
              ELSE /\ resp'.op = "cleanup_old_conversations"
                   /\ now - Conv(stateFile, c).started_at
                        > DefaultMaxAgeHours * SecondsPerHour]_vars

\* C3 witness: long after the cooldown, a check on a record that
\* end_conversation completed and that has had a turn recorded since then
\* was denied as already completed.
C3_Witness ==
    /\ IsCheck /\ ~resp.ok
    /\ resp.text = "Conversation already completed"
    /\ resp.id = "c2"
    /\ Completed(stateFile, "c2")
    /\ Conv(stateFile, "c2").turns > 0
    /\ Conv(stateFile, "c2").last_message_at > StartTime

\* C4 as claimed: record_turn(id) leaves a record for id whose turns is one
\* more than before (1 when there was no record), with last_message_at and
\* the global last_response_at set to the current time, in a saved file.
C4_RecordTurnCreatesAndCounts ==
    [][resp'.op = "record_turn" =>
          /\ stateFile'.kind = "json"
          /\ resp'.id \in Records(stateFile')
          /\ Conv(stateFile', resp'.id).turns =
                 (IF resp'.id \in Records(stateFile)
                  THEN Conv(stateFile, resp'.id).turns ELSE 0) + 1
          /\ Conv(stateFile', resp'.id).last_message_at = now
          /\ LastResponse(stateFile') = <<now>>]_vars

\* C6 as claimed: once completed = true, no operation changes the turns
\* count of that record.
C6_NoTurnOnceCompleted ==
    [][\A c \in ConvIds :
          Completed(stateFile, c) /\ c \in Records(stateFile') =>
              Conv(stateFile', c).turns = Conv(stateFile, c).turns]_vars

\* C7: over any sequence of record_turn, check_safeguards and
\* end_conversation calls on any ids, the turns of a record never
\* decreases.
C7_TurnsNonDecreasing ==
    [][\A c \in ConvIds :
          c \in Records(stateFile) /\ c \in Records(stateFile') =>
              Conv(stateFile', c).turns >= Conv(stateFile, c).turns]_vars

\* C7 witness: record_turn has just raised a record from 0 to 2 turns, with
\* an end_conversation on the other id in between.
C7_Witness ==
    /\ resp.op = "record_turn" /\ resp.id = "c2"
    /\ "c2" \in Records(stateFile)
    /\ Conv(stateFile, "c2").turns = 2
    /\ Completed(stateFile, "c1")
    /\ Conv(stateFile, "c1").end_reason = "digest_complete"

\* C10: a record with turns = MAX_TURNS (3) is denied whatever time has
\* passed since started_at or last_response_at; a record with turns =
\* MAX_TURNS - 1 is admitted when no other rule (cooldown, completed,
\* timeout, self-origin) applies.
C10_TurnBudget ==
    IsCheck /\ resp.id \in Records(stateFile) =>
        /\ Conv(stateFile, resp.id).turns = 3 => ~resp.ok
        /\ /\ Conv(stateFile, resp.id).turns = 3 - 1
           /\ ~ \/ RuleCooldown(stateFile, now)
                \/ RuleCompleted(stateFile, resp.id)
                \/ RuleExpired(stateFile, now, resp.id)
                \/ RuleSelfOrigin(resp.arg)
           => resp.ok /\ resp.text = "OK"

\* C10 witness: a record whose third turn was recorded during the run is
\* denied for its turns a day later, with the cooldown long over.
C10_Witness ==
    /\ IsCheck /\ ~resp.ok
    /\ resp.text = "Max turns reached (3)"
    /\ resp.arg = "argus"
    /\ Conv(stateFile, resp.id).turns = 3
    /\ Conv(stateFile, resp.id).last_message_at > StartTime
    /\ now >= 86400

\* C11 as claimed: check_safeguards never changes the state file, and with
\* no mutation of the state file in between two calls with the same
\* arguments give the same (admit, reason).  (If it held, a step that
\* leaves the file alone would leave every answer alone.)
C11_SameAnswerWithoutMutation ==
    [][/\ resp'.op = "check_safeguards" => stateFile' = stateFile
       /\ stateFile' = stateFile =>
             \A c \in ConvIds, s \in Sources :
                 check_safeguards(stateFile', now', c, s)
                   = check_safeguards(stateFile, now, c, s)]_vars

\* C11 as amended: check_safeguards never changes the state file, not even
\* to repair an unreadable one; its answer is the one the file, the
\* arguments and the clock determine, so that a second call with the same
\* arguments at the same clock reading gives the same (admit, reason).
C11_ReadOnlyAndRepeatable ==
    [][/\ resp'.op = "check_safeguards" =>
             /\ stateFile' = stateFile
             /\ Reply(resp'.ok, resp'.text)
                  = check_safeguards(stateFile', now', resp'.id, resp'.arg)
       /\ /\ resp.op = "check_safeguards" /\ resp'.op = "check_safeguards"
          /\ resp'.id = resp.id /\ resp'.arg = resp.arg
          => resp'.ok = resp.ok /\ resp'.text = resp.text]_vars

\* C11 witness: a call that found an unreadable state file answered and
\* left the file unreadable.
C11_Witness ==
    /\ IsCheck /\ resp.ok /\ resp.text = "OK"
    /\ stateFile = CorruptFile

\* C12: in every reachable state, for every conversation id and at every
\* time, check_safeguards denies a message whose source is "nanobot", the
\* local agent's own identifier; so does every call actually made.
C12_SelfOriginDenied ==
    /\ \A c \in ConvIds : ~check_safeguards(stateFile, now, c, "nanobot").admit
    /\ IsCheck /\ resp.arg = "nanobot" => ~resp.ok

\* C12 witness: a call from "nanobot" on a recorded conversation that no
\* other rule denies was denied as the agent's own message.
C12_Witness ==
    /\ IsCheck /\ ~resp.ok /\ resp.arg = "nanobot"
    /\ resp.text = "Won't respond to own messages"
    /\ resp.id \in Records(stateFile)
    /\ Conv(stateFile, resp.id).turns = 2

\* The peer messages stored for a session: the inputs it has processed.
PeerInputs(f, c) ==
    Cardinality({i \in DOMAIN MessagesOf(f, c) :
                    MessagesOf(f, c)[i].role = "argus"})

\* C5 as claimed: after /digest or /github has admitted and answered a
\* request for conversation id c, the saved state file holds a record for
\* c with turns = 1 and completed = true, as the response reports.
C5_OneShotLeavesCompletedRecord ==
    resp.op \in {"daily_digest", "github_watch"} /\ resp.ok =>
        /\ resp.id \in Records(stateFile)
        /\ Conv(stateFile, resp.id).turns = 1
        /\ Conv(stateFile, resp.id).completed

\* C8 as claimed: the relay runs a dialog step only for a message that
\* check_safeguards admits at that moment.
C8_DialogStepIsAdmitted ==
    [][resp'.op = "github_chat" =>
          check_safeguards(stateFile, now, resp'.id, "argus").admit]_vars

\* C9 as claimed, with the one turn limit the program has as the bound N:
\* once a session has processed N inputs, further input is not processed
\* (no message is appended).
C9_DialogIsTurnBounded ==
    [][PeerInputs(convFile, chat_id) >= MAX_TURNS_PER_CONVERSATION =>
          MessagesOf(convFile', chat_id) = MessagesOf(convFile, chat_id)]_vars

(***************************************************************************)
(* Reading a dialog step                                                   *)
(***************************************************************************)
IsDialog == resp.op = "handle_github_dialog"
\* The session stored for the dialog's id (there is one after any step).
Session == load_conversations(convFile)[chat_id]
\* The step ran on an existing session / made the first contact.
Continued == IsDialog /\ resp.out.before # None
FirstContact == IsDialog /\ resp.out.before = None
\* The termination vocabulary of the specification, case-insensitive.
HasExitToken(x) ==
    \E w \in {<<"d", "o", "n", "e">>, <<"f", "e", "r", "t", "i", "g">>,
              <<"e", "n", "d", "e">>, <<"n", "e", "i", "n">>,
              <<"k", "e", "i", "n", "s">>, <<"n", "i", "c", "h", "t", "s">>} :
        Contains(lower(x), w)
Selected(context) == Get(context, "selected_issue", None)
Pending(context) == Get(context, "waiting_for_claude", FALSE)

C14_OnlyYesNoWhilePending ==
    /\ Continued /\ Pending(resp.out.before[1].context)
    /\ ~HasExitToken(resp.out.input)
    /\ ~Scanned[resp.out.input].yes /\ ~Scanned[resp.out.input].no
    => /\ resp.out.waiting_for = "claude_decision"
       /\ resp.out.options = <<"ja", "nein">>
       /\ Pending(Session.context)
       /\ Selected(Session.context) = Selected(resp.out.before[1].context)

\* C15 as claimed: a dialog step on a session whose status is done changes
\* nothing of it: messages, context, turn and status stay.
C15_DoneSessionIsInert ==
    Continued /\ resp.out.before[1].status = "done" =>
        Session = resp.out.before[1]

\* C16 as claimed: a step on an existing session appends exactly two
\* messages, the peer input and then the local response; first contact
\* appends exactly one, the local response.
C16_TwoMessagesPerTransition ==
    LET said == [role |-> "nanobot", content |-> resp.out.response,
                 timestamp |-> now]
        heard == [role |-> "argus", content |-> InputContent(resp.out.input),
                  timestamp |-> now]
    IN  /\ FirstContact => Session.messages = <<said>>
        /\ Continued =>
             Session.messages = resp.out.before[1].messages \o <<heard, said>>

\* C17: the dialog step returns done = true exactly on first contact with
\* an empty issue list and on an input with a termination token; selection,
\* comments, analysis, yes and no to the confirmation (ask_claude failing or
\* succeeding), back and clarification return done = false.
C17_DoneOnlyOnTwoPaths ==
    IsDialog =>
        /\ resp.out.done <=>
               \/ FirstContact /\ Session.context["issues"] = <<>>
               \/ Continued /\ HasExitToken(resp.out.input)
        /\ resp.out.response.kind \in
               {"listing", "issue", "comments", "analysis", "claude_answer",
                "claude_failed", "declined", "back", "clarify"}
           => ~resp.out.done
        /\ resp.out.calls # <<"_get_issues">> /\ resp.out.calls # <<>>
           => ~resp.out.done

\* C17 witness: "ja" to the pending confirmation with ask_claude failing
\* left the session open.
C17_Witness ==
    /\ Continued /\ ~resp.out.done
    /\ resp.out.input = T_ja
    /\ resp.out.calls = <<"ask_claude">>
    /\ resp.out.response.kind = "claude_failed"
    /\ Session.status = "active"

\* C18: first contact when the tracker lists nothing, or when the gh call
\* fails, yields done = true with no options, stores an empty list and
\* appends no peer message.
C18_EmptyListIsDone ==
    /\ FirstContact
    /\ resp.out.tracker = "failed" \/ Session.context["issues"] = <<>>
    => /\ resp.out.done
       /\ resp.out.options = <<>>
       /\ Session.context["issues"] = <<>>
       /\ PeerInputs(convFile, chat_id) = 0

\* C18 witness: first contact with the gh call failing.
C18_Witness ==
    /\ FirstContact /\ resp.out.tracker = "failed"
    /\ resp.out.done /\ resp.out.response.kind = "no_issues"

\* C19 as claimed: whenever the dialog step returns done = true, the stored
\* status of the session is "done" afterwards.
C19_DoneMeansStatusDone ==
    IsDialog /\ resp.out.done => Session.status = "done"

\* C20: first contact with a non-empty issue list creates the session with
\* the list in its context, presents the first 5 issues at most, offers
\* their references and then "keins", waits for an issue selection and
\* returns done = false.
C20_FirstContactLists ==
    FirstContact /\ Session.context["issues"] # <<>> =>
        LET issues == Session.context["issues"]
            n == IF Len(issues) < 5 THEN Len(issues) ELSE 5
        IN  /\ issues \in IssueLists \cup {SixIssues}
            /\ Session.context["repo"] = full_repo
            /\ Session.status = "active"
            /\ resp.out.response.kind = "listing"
            /\ resp.out.response.items = [i \in 1..n |-> issues[i].number]
            /\ resp.out.options =
                   [i \in 1..n |-> "#" \o ToString(issues[i].number)]
                     \o <<"keins">>
            /\ Len(resp.out.options) <= 5 + 1
            /\ resp.out.waiting_for = "issue_selection"
            /\ ~resp.out.done
            /\ Session.messages =
                   <<[role |-> "nanobot", content |-> resp.out.response,
                      timestamp |-> now]>>

\* C20 witness: first contact with a tracker that lists six issues offered
\* five of them and "keins".
C20_Witness ==
    /\ FirstContact /\ Len(Session.context["issues"]) = 6
    /\ Len(resp.out.options) = 6
    /\ resp.out.options[1] = "#7"

(***************************************************************************)
(* How the specification classifies an input, given the context the        *)
(* session had when the step began                                         *)
(***************************************************************************)
CachedIssues(context) == Get(context, "issues", <<>>)
\* The first integer of the input is the number of a cached issue.
NamesKnownIssue(x, context) ==
    /\ Scanned[x].number # <<>>
    /\ \E i \in DOMAIN CachedIssues(context) :
           CachedIssues(context)[i].number = Scanned[x].number[1]
\* The input asks for an action the state offers: comments or analysis of
\* the selected issue, yes or no to the pending confirmation.
AsksOfferedAction(x, context) ==
    \/ /\ Selected(context) # None /\ Selected(context) # <<0>>
       /\ Scanned[x].kommentar \/ Scanned[x].analy
    \/ Pending(context) /\ (Scanned[x].yes \/ Scanned[x].no)
\* Back, with nothing of higher priority in the input.
IsBack(x, context) ==
    /\ Contains(lower(x), <<"z", "u", "r", "ü", "c", "k">>)
    /\ ~HasExitToken(x) /\ ~NamesKnownIssue(x, context)
    /\ ~AsksOfferedAction(x, context)
\* Nothing the dialog knows.
Unrecognized(x, context) ==
    /\ ~HasExitToken(x) /\ ~NamesKnownIssue(x, context)
    /\ ~AsksOfferedAction(x, context)
    /\ ~Contains(lower(x), <<"z", "u", "r", "ü", "c", "k">>)
FirstFive(list) == SubSeq(list, 1, IF Len(list) < 5 THEN Len(list) ELSE 5)

\* C21: an input without termination token whose first integer, with or
\* without '#', is the number of a cached issue stores that number as the
\* selected issue, fetches its details, waits for an action selection and
\* returns done = false, whatever the session's state and whatever
\* keywords follow the number.
C21_SelectionStoresItem ==
    /\ Continued /\ ~HasExitToken(resp.out.input)
    /\ NamesKnownIssue(resp.out.input, resp.out.before[1].context)
    => /\ Selected(Session.context) = Scanned[resp.out.input].number
       /\ resp.out.response.kind = "issue"
       /\ resp.out.response.num = Scanned[resp.out.input].number
       /\ resp.out.waiting_for = "action_selection"
       /\ resp.out.calls = <<"_get_issue_details">>
       /\ ~resp.out.done
       /\ CachedIssues(Session.context)
            = CachedIssues(resp.out.before[1].context)

\* C21 witness: "#12 zurück", sent while issue 7 is selected and the
\* confirmation is pending, selected issue 12.
C21_Witness ==
    /\ Continued /\ resp.out.input = T_12_zurueck
    /\ Selected(resp.out.before[1].context) = <<7>>
    /\ Pending(resp.out.before[1].context)
    /\ Selected(Session.context) = <<12>>
    /\ resp.out.waiting_for = "action_selection"

\* C22: an input the dialog does not know, such as "42" when no issue 42 is
\* cached, gets the fixed clarification with the options back and done,
\* waiting_for = clarification and done = false, and leaves the context
\* (cached list, selected issue, pending flag) and the status as they were.
C22_UnrecognizedClarifies ==
    /\ Continued
    /\ Unrecognized(resp.out.input, resp.out.before[1].context)
    => /\ resp.out.response.kind = "clarify"
       /\ resp.out.options = <<"zurück", "fertig">>
       /\ resp.out.waiting_for = "clarification"
       /\ ~resp.out.done
       /\ resp.out.calls = <<>>
       /\ Session.context = resp.out.before[1].context
       /\ Session.status = resp.out.before[1].status

\* C22 witness: "42" on a session that lists six issues, with issue 7
\* selected and the confirmation pending.
C22_Witness ==
    /\ Continued /\ resp.out.input = T_42
    /\ Len(CachedIssues(Session.context)) = 6
    /\ Selected(Session.context) = <<7>>
    /\ Pending(Session.context)
    /\ resp.out.response.kind = "clarify"

\* C23: back resets the selected issue to none and the pending flag to
\* false and returns the listing, built from the cached list without a
\* call to the tracker, waiting for an issue selection with done = false;
\* the cached list stays.
C23_BackResets ==
    /\ Continued /\ IsBack(resp.out.input, resp.out.before[1].context)
    => LET cached == CachedIssues(resp.out.before[1].context)
       IN  /\ "selected_issue" \in DOMAIN Session.context
           /\ Session.context["selected_issue"] = None
           /\ "waiting_for_claude" \in DOMAIN Session.context
           /\ Session.context["waiting_for_claude"] = FALSE
           /\ CachedIssues(Session.context) = cached
           /\ resp.out.response.kind = "back"
           /\ resp.out.response.items =
                  [i \in DOMAIN FirstFive(cached) |-> cached[i].number]
           /\ resp.out.options =
                  [i \in DOMAIN FirstFive(cached) |->
                       "#" \o ToString(cached[i].number)] \o <<"fertig">>
           /\ resp.out.waiting_for = "issue_selection"
           /\ resp.out.calls = <<>>
           /\ ~resp.out.done

\* C23 witness: "zurück" with issue 7 selected and the confirmation pending,
\* on a session that caches six issues.
C23_Witness ==
    /\ Continued /\ resp.out.input = T_zurueck
    /\ Selected(resp.out.before[1].context) = <<7>>
    /\ Pending(resp.out.before[1].context)
    /\ Len(CachedIssues(Session.context)) = 6
    /\ Len(resp.out.options) = 6
    /\ Selected(Session.context) = None

\* C24: whatever dialog operation runs, every session keeps the messages it
\* had, in their order and unchanged, as a prefix of its messages.
C24_MessagesAppendOnly ==
    [][\A c \in DOMAIN load_conversations(convFile) :
          /\ c \in DOMAIN load_conversations(convFile')
          /\ Len(MessagesOf(convFile', c)) >= Len(MessagesOf(convFile, c))
          /\ SubSeq(MessagesOf(convFile', c), 1, Len(MessagesOf(convFile, c)))
               = MessagesOf(convFile, c)]_vars

\* C24 witness: a session that was ended and then spoken to again holds
\* seven messages.
C24_Witness ==
    /\ Continued /\ resp.out.before[1].status = "done"
    /\ Len(Session.messages) = 7
    /\ Len(resp.out.before[1].messages) = 5

\* C30 as claimed: after DELETE /chat on an existing session the session is
\* not active and the dialog store holds no messages and no context for
\* its id.
C30_EndChatClearsState ==
    resp.op = "end_chat" /\ resp.ok =>
        \/ chat_id \notin DOMAIN load_conversations(convFile)
        \/ /\ Session.status # "active"
           /\ Session.messages = <<>>
           /\ Session.context = <<>>

\* C25: end_conversation(id, reason) on a recorded conversation sets
\* completed = true and stores the reason; on one that is already ended it
\* changes nothing but end_reason.  Either way turns, started_at, the
\* other records and last_response_at stay, and an id without record gets
\* none.
C25_EndConversationIdempotent ==
    [][resp'.op = "end_conversation" =>
          /\ Records(stateFile') = Records(stateFile)
          /\ LastResponse(stateFile') = LastResponse(stateFile)
          /\ \A c \in Records(stateFile) :
                Conv(stateFile', c) =
                    IF c = resp'.id
                    THEN [Conv(stateFile, c) EXCEPT
                            !.completed = TRUE, !.end_reason = resp'.arg]
                    ELSE Conv(stateFile, c)
          /\ end_conversation(stateFile', resp'.id, resp'.arg) = stateFile'
         ]_vars

\* C25 witness: a conversation that had been ended as "completed", with
\* two turns and a cooldown stamp, was ended again as "digest_complete".
C25_Witness ==
    /\ resp.op = "end_conversation" /\ resp.out.before # None
    /\ resp.out.before[1].completed
    /\ resp.out.before[1].end_reason = "completed"
    /\ Conv(stateFile, resp.id).completed
    /\ Conv(stateFile, resp.id).end_reason = "digest_complete"
    /\ Conv(stateFile, resp.id).turns = 2
    /\ LastResponse(stateFile) # None

\* C26: cleanup_old_conversations(24) removes exactly the records whose
\* started_at is earlier than now - 24 h (one started exactly 24 h ago
\* stays), returns how many it removed, and leaves the records it keeps
\* and last_response_at as they were.
C26_CleanupRemovesExactlyOld ==
    [][resp'.op = "cleanup_old_conversations" =>
          LET old == {c \in Records(stateFile) :
                         Conv(stateFile, c).started_at < now - 24 * 3600}
          IN  /\ Records(stateFile') = Records(stateFile) \ old
              /\ \A c \in Records(stateFile') :
                     Conv(stateFile', c) = Conv(stateFile, c)
              /\ LastResponse(stateFile') = LastResponse(stateFile)
              /\ resp'.n = Cardinality(old)]_vars

\* C26 witness: one second past 24 h after c1 started, the sweep removed c1
\* and kept c2, started 30 s later, and the cooldown stamp.
C26_Witness ==
    /\ resp.op = "cleanup_old_conversations" /\ resp.n = 1
    /\ now = 86401
    /\ Records(stateFile) = {"c2"}
    /\ LastResponse(stateFile) # None

\* C27: under a clock that never runs backwards, no check_safeguards,
\* record_turn, end_conversation or cleanup_old_conversations lowers or
\* unsets last_response_at.
C27_LastResponseMonotone ==
    [][LastResponse(stateFile) # None =>
          /\ LastResponse(stateFile') # None
          /\ LastResponse(stateFile')[1] >= LastResponse(stateFile)[1]]_vars

\* C27 witness: the stamp record_turn wrote at 300 s is still there after
\* a sweep, a day later, that removed a record.
C27_Witness ==
    /\ resp.op = "cleanup_old_conversations" /\ resp.n = 1
    /\ now > 86400
    /\ LastResponse(stateFile) = <<300>>

(***************************************************************************)
(* Reading the calls in flight                                             *)
(***************************************************************************)
AllDone == \A w \in Workers : inflight.calls[w].pc = "done"
\* The store shows what the call of w did to the record it loaded.
EffectPresent(w) ==
    LET call == inflight.calls[w]
        loaded == call.state.conversations
    IN  call.id \in DOMAIN loaded =>
            /\ call.id \in Records(stateFile)
            /\ call.op = "record_turn" =>
                   /\ Conv(stateFile, call.id).turns
                        = loaded[call.id].turns + 1
                   /\ Conv(stateFile, call.id).last_message_at = call.t
            /\ call.op = "end_conversation" =>
                   /\ Conv(stateFile, call.id).completed
                   /\ Conv(stateFile, call.id).end_reason = "digest_complete"

\* C28 as claimed: when the load and save steps of two calls on two
\* different ids have interleaved in any way, the store holds the effect of
\* both calls.
C28_NoLostUpdate ==
    AllDone => \A w \in Workers : EffectPresent(w)

\* C28 as amended: the store holds the effect of both calls when neither
\* loaded between the other's load and save; whatever the order, it holds
\* the effect of the call that saved last.
C28_SerializedCallsKeepBoth ==
    /\ AllDone /\ ~inflight.overlapped => \A w \in Workers : EffectPresent(w)
    /\ AllDone => \A w \in Workers :
                      inflight.calls[w].id = resp.id => EffectPresent(w)

\* C28 witness: two record_turn calls, one after the other, each on a
\* recorded conversation; both turns are in the store.
C28_Witness ==
    /\ AllDone /\ ~inflight.overlapped
    /\ \A w \in Workers :
          /\ inflight.calls[w].op = "record_turn"
          /\ inflight.calls[w].id \in DOMAIN inflight.calls[w].state.conversations
    /\ Conv(stateFile, "c1").turns = 3
    /\ Conv(stateFile, "c2").turns = 1

\* A store that holds nothing, well-formed.
EmptyStateFile == [kind |-> "json",
                   data |-> [conversations |-> <<>>, last_response_at |-> <<>>]]
EmptyConvFile == [kind |-> "json", data |-> <<>>]

YesFamily == {T_ja, T_yes, T_OK}
NoFamily == {T_nein, T_no, T_nee}

\* C31: a yes-family input to a session whose confirmation is pending
\* clears the pending flag, calls ask_claude once and answers with the
\* text ask_claude returned, on success and on failure alike; on failure
\* the error text is in the response as returned, done is false and the
\* session's status is what it was.
C31_YesAsksExecutor ==
    (Continued /\ Pending(resp.out.before[1].context)
       /\ resp.out.input \in YesFamily) =>
       /\ ~Pending(Session.context)
       /\ resp.out.calls = <<"ask_claude">>
       /\ resp.out.executor # None
       /\ resp.out.response.text = resp.out.executor[1].text
       /\ resp.out.response.kind =
             (IF resp.out.executor[1].success THEN "claude_answer"
              ELSE "claude_failed")
       /\ resp.out.done = FALSE
       /\ Session.status = resp.out.before[1].status
       /\ Session.messages[Len(Session.messages)].content = resp.out.response

\* C31 witness: "OK " sent while the confirmation is pending on an active
\* session, ask_claude timing out.
C31_Witness ==
    /\ Continued /\ Pending(resp.out.before[1].context)
    /\ resp.out.input = T_OK
    /\ resp.out.before[1].status = "active"
    /\ resp.out.executor = <<[success |-> FALSE, text |-> ClaudeFailure]>>
    /\ Session.status = "active"

\* C34 as the specification states it: while the confirmation is pending,
\* each of nein, no and nee clears the pending flag, calls nothing, and
\* returns done = false with the options back and done, the session not
\* closed.
C34_NoDeclinesWithoutClosing ==
    (Continued /\ Pending(resp.out.before[1].context)
       /\ resp.out.input \in NoFamily) =>
       /\ ~Pending(Session.context)
       /\ resp.out.calls = <<>>
       /\ resp.out.done = FALSE
       /\ resp.out.options = <<"zurück", "fertig">>
       /\ Session.status = resp.out.before[1].status

(***************************************************************************)
(* The files as text: json.dumps and json.loads                            *)
(* What save_state and save_conversations write and what load_state and    *)
(* load_conversations read back, over the values the code puts into the    *)
(* stores.                                                                 *)
(***************************************************************************)
\* A Python value: None, a bool, an int, a str, a list, a dict (its items
\* in insertion order, each a pair of key and value) or a datetime.
Py(t, b, n, s, items) == [t |-> t, b |-> b, n |-> n, s |-> s, items |-> items]
PyNone == Py("none", FALSE, 0, "", <<>>)
PyBool(b) == Py("bool", b, 0, "", <<>>)
PyInt(n) == Py("int", FALSE, n, "", <<>>)
PyStr(s) == Py("str", FALSE, 0, s, <<>>)
PyList(items) == Py("list", FALSE, 0, "", items)
PyPair(k, v) == Py("pair", FALSE, 0, "", <<k, v>>)
PyDict(pairs) == Py("dict", FALSE, 0, "", pairs)
PyDatetime(n) == Py("datetime", FALSE, n, "", <<>>)

\* A token of JSON text.
Tok(k, s, n) == [k |-> k, s |-> s, n |-> n]
Sym(k) == Tok(k, "", 0)

\* str(datetime) and datetime.isoformat(): the clock as text.
StrOfDatetime(n) == "2026-01-01 " \o ToString(n)
IsoOfDatetime(n) == "2026-01-01T" \o ToString(n)

\* The key of a JSON object made of a dict key: a str as it is, an int,
\* bool or None as its text.
key_text(k) ==
    CASE k.t = "str" -> k.s
      [] k.t = "int" -> ToString(k.n)
      [] k.t = "bool" -> (IF k.b THEN "true" ELSE "false")
      [] OTHER -> "null"

RECURSIVE dumps(_, _)
RECURSIVE dumps_items(_, _, _)
\* json.dumps(x) and json.dumps(x, default=str): the tokens of the text.
\* A value json cannot encode goes through default; without default the
\* call raises TypeError and nothing is written.
dumps(x, default_str) ==
    CASE x.t = "none" -> <<Sym("null")>>
      [] x.t = "bool" -> <<Sym(IF x.b THEN "true" ELSE "false")>>
      [] x.t = "int" -> <<Tok("number", "", x.n)>>
      [] x.t = "str" -> <<Tok("string", x.s, 0)>>
      [] x.t = "list" ->
            <<Sym("[")>> \o dumps_items(x.items, 1, default_str)
                \o <<Sym("]")>>
      [] x.t = "dict" ->
            <<Sym("{")>> \o dumps_items(x.items, 1, default_str)
                \o <<Sym("}")>>
      [] x.t = "pair" ->
            <<Tok("string", key_text(x.items[1]), 0), Sym(":")>>
                \o dumps(x.items[2], default_str)
      [] OTHER ->
            IF default_str THEN <<Tok("string", StrOfDatetime(x.n), 0)>>
            ELSE <<Sym("TypeError")>>

dumps_items(items, i, default_str) ==
    IF i > Len(items) THEN <<>>
    ELSE dumps(items[i], default_str)
            \o (IF i < Len(items) THEN <<Sym(",")>> ELSE <<>>)
            \o dumps_items(items, i + 1, default_str)

Parsed(v, next) == [ok |-> TRUE, v |-> v, next |-> next]
ParseError == [ok |-> FALSE, v |-> PyNone, next |-> 0]
TokAt(toks, i) == IF i \in 1..Len(toks) THEN toks[i] ELSE Sym("eof")

RECURSIVE parse_value(_, _)
RECURSIVE parse_items(_, _, _)
RECURSIVE parse_members(_, _, _)
\* json.loads, value by value: the value that starts at token i and the
\* index after it.
parse_value(toks, i) ==
    LET tk == TokAt(toks, i)
    IN  CASE tk.k = "null" -> Parsed(PyNone, i + 1)
          [] tk.k = "true" -> Parsed(PyBool(TRUE), i + 1)
          [] tk.k = "false" -> Parsed(PyBool(FALSE), i + 1)
          [] tk.k = "number" -> Parsed(PyInt(tk.n), i + 1)
          [] tk.k = "string" -> Parsed(PyStr(tk.s), i + 1)
          [] tk.k = "[" ->
                IF TokAt(toks, i + 1).k = "]" THEN Parsed(PyList(<<>>), i + 2)
                ELSE parse_items(toks, i + 1, <<>>)
          [] tk.k = "{" ->
                IF TokAt(toks, i + 1).k = "}" THEN Parsed(PyDict(<<>>), i + 2)
                ELSE parse_members(toks, i + 1, <<>>)
          [] OTHER -> ParseError

\* The elements of an array from token i on, acc the ones read so far.
parse_items(toks, i, acc) ==
    LET p == parse_value(toks, i)
    IN  IF ~p.ok THEN ParseError
        ELSE IF TokAt(toks, p.next).k = ","
        THEN parse_items(toks, p.next + 1, Append(acc, p.v))
        ELSE IF TokAt(toks, p.next).k = "]"
        THEN Parsed(PyList(Append(acc, p.v)), p.next + 1)
        ELSE ParseError

\* The members of an object from token i on.  Every key comes back a str.
parse_members(toks, i, acc) ==
    IF TokAt(toks, i).k # "string" \/ TokAt(toks, i + 1).k # ":"
    THEN ParseError
    ELSE LET p == parse_value(toks, i + 2)
             member == PyPair(PyStr(TokAt(toks, i).s), p.v)
         IN  IF ~p.ok THEN ParseError
             ELSE IF TokAt(toks, p.next).k = ","
             THEN parse_members(toks, p.next + 1, Append(acc, member))
             ELSE IF TokAt(toks, p.next).k = "}"
             THEN Parsed(PyDict(Append(acc, member)), p.next + 1)
             ELSE ParseError

\* json.loads(text): the value, or an exception.
loads(toks) ==
    LET p == parse_value(toks, 1)
    IN  IF p.ok /\ p.next = Len(toks) + 1 THEN p ELSE ParseError

\* Faulty variant: the datetime itself stored in the place of its
\* isoformat() text.
now_datetime(t) == PyDatetime(t)

\* datetime.now().isoformat(): every timestamp the code stores is this str.
now_isoformat(t) == PyStr(IsoOfDatetime(t))

RECURSIVE InOrder(_)
\* The keys of a dict one after another.
InOrder(keys) ==
    IF keys = {} THEN <<>>
    ELSE LET k == CHOOSE x \in keys : TRUE
         IN  <<k>> \o InOrder(keys \ {k})

\* A record of the state file as the code builds it (start_conversation,
\* record_turn, end_conversation).
record_py(r) ==
    PyDict(<<PyPair(PyStr("id"), PyStr(r.id)),
             PyPair(PyStr("started_at"), now_isoformat(r.started_at)),
             PyPair(PyStr("turns"), PyInt(r.turns)),
             PyPair(PyStr("last_message_at"),
                    now_isoformat(r.last_message_at)),
             PyPair(PyStr("completed"), PyBool(r.completed)),
             PyPair(PyStr("source"), PyStr(r.source))>>
           \o (IF r.end_reason = NoReason THEN <<>>
               ELSE <<PyPair(PyStr("end_reason"), PyStr(r.end_reason))>>))

\* The state dict.
state_py(state) ==
    LET ids == InOrder(DOMAIN state.conversations)
    IN  PyDict(<<PyPair(PyStr("conversations"),
                        PyDict([i \in 1..Len(ids) |->
                                  PyPair(PyStr(ids[i]),
                                         record_py(
                                             state.conversations[ids[i]]))])),
                 PyPair(PyStr("last_response_at"),
                        IF state.last_response_at = None THEN PyNone
                        ELSE now_isoformat(state.last_response_at[1]))>>)

\* An issue as _get_issues builds it.
issue_py(i) ==
    PyDict(<<PyPair(PyStr("number"), PyInt(i.number)),
             PyPair(PyStr("title"), PyStr(i.title)),
             PyPair(PyStr("author"), PyStr(i.author)),
             PyPair(PyStr("created"), PyStr(i.created)),
             PyPair(PyStr("labels"),
                    PyList([k \in 1..Len(i.labels) |-> PyStr(i.labels[k])])),
             PyPair(PyStr("comments"), PyInt(i.comments))>>)

\* A session's context: repo from create_conversation, the other keys once
\* update_context has set them.
context_py(c) ==
    PyDict(
        (IF "repo" \in DOMAIN c
         THEN <<PyPair(PyStr("repo"), PyStr(c["repo"]))>> ELSE <<>>)
     \o (IF "issues" \in DOMAIN c
         THEN <<PyPair(PyStr("issues"),
                       PyList([k \in 1..Len(c["issues"]) |->
                                 issue_py(c["issues"][k])]))>>
         ELSE <<>>)
     \o (IF "selected_issue" \in DOMAIN c
         THEN <<PyPair(PyStr("selected_issue"),
                       IF c["selected_issue"] = None THEN PyNone
                       ELSE PyInt(c["selected_issue"][1]))>>
         ELSE <<>>)
     \o (IF "waiting_for_claude" \in DOMAIN c
         THEN <<PyPair(PyStr("waiting_for_claude"),
                       PyBool(c["waiting_for_claude"]))>>
         ELSE <<>>))

\* A message as add_message appends it; its content is the response text.
message_py(m) ==
    PyDict(<<PyPair(PyStr("role"), PyStr(m.role)),
             PyPair(PyStr("content"), PyStr(ToString(m.content))),
             PyPair(PyStr("timestamp"), now_isoformat(m.timestamp))>>)

\* A session as create_conversation builds it.
session_py(c) ==
    PyDict(<<PyPair(PyStr("id"), PyStr(c.id)),
             PyPair(PyStr("topic"), PyStr(c.topic)),
             PyPair(PyStr("messages"),
                    PyList([k \in 1..Len(c.messages) |->
                              message_py(c.messages[k])])),
             PyPair(PyStr("context"), context_py(c.context)),
             PyPair(PyStr("turn"), PyInt(c.turn)),
             PyPair(PyStr("status"), PyStr(c.status)),
             PyPair(PyStr("created_at"), now_isoformat(c.created_at))>>)

\* The dict of all sessions.
convs_py(convs) ==
    LET ids == InOrder(DOMAIN convs)
    IN  PyDict([i \in 1..Len(ids) |->
                  PyPair(PyStr(ids[i]), session_py(convs[ids[i]]))])

\* save_state: json.dumps(state, indent=2), written as the file's text.
save_state_text(state) == dumps(state, FALSE)

\* load_state on a file with that text.
load_state_text(text) ==
    IF loads(text).ok THEN loads(text).v ELSE state_py(DefaultState)

\* save_conversations: json.dumps(convs, indent=2, default=str).
save_conversations_text(convs) == dumps(convs, TRUE)

\* load_conversations on a file with that text.
load_conversations_text(text) ==
    IF loads(text).ok THEN loads(text).v ELSE PyDict(<<>>)

(***************************************************************************)
(* Saving and loading again: SpecRoundTrip                                 *)
(* Over the state files found at start-up and the dialog files a session   *)
(* leaves behind step by step.                                             *)
(***************************************************************************)
\* The dialog file after each step of a session: first contact with each
\* tracker, then issue 7, its analysis, yes with ask_claude timing out,
\* back, and the exit word.
AfterStep(f, user_input, ext) ==
    handle_github_dialog(f, StartTime, chat_id, user_input, full_repo,
                         ext).file
Tracker(issues) ==
    [issues |-> issues, gh_ok |-> TRUE, body |-> FALSE, comments |-> FALSE,
     claude |-> FALSE]
Listed == AfterStep(NoFile, W_start, Tracker(<<Issue7, Issue12>>))
Chosen == AfterStep(Listed, T_7, Tracker(<<>>))
Analysed == AfterStep(Chosen, T_analysieren, Tracker(<<>>))
Answered == AfterStep(Analysed, T_ja, Tracker(<<>>))
WentBack == AfterStep(Answered, T_zurueck, Tracker(<<>>))
Closed == AfterStep(WentBack, T_fertig, Tracker(<<>>))
DialogFiles ==
    {NoFile, CorruptFile, AfterStep(NoFile, W_start, Tracker(<<>>)),
     AfterStep(NoFile, W_start, Tracker(SixIssues)),
     Listed, Chosen, Analysed, Answered, WentBack, Closed}

InitRoundTrip ==
    /\ now = StartTime
    /\ stateFile \in InitFiles
    /\ convFile \in DialogFiles
    /\ resp = NoResp
    /\ inflight = NoCalls

\* save_state(state) and then load_state(), for the state the file holds.
RoundTripState ==
    LET saved == state_py(load_state(stateFile))
    IN  /\ resp' = [op |-> "save_state, load_state", id |-> "", arg |-> "",
                    ok |-> TRUE, text |-> "", n |-> 0,
                    out |-> [saved |-> saved,
                             loaded |->
                                 load_state_text(save_state_text(saved))]]
        /\ UNCHANGED <<now, stateFile, convFile, inflight>>

\* save_conversations(convs) and then load_conversations().
RoundTripConversations ==
    LET saved == convs_py(load_conversations(convFile))
    IN  /\ resp' = [op |-> "save_conversations, load_conversations",
                    id |-> "", arg |-> "", ok |-> TRUE, text |-> "",
                    n |-> 0,
                    out |-> [saved |-> saved,
                             loaded |->
                                 load_conversations_text(
                                     save_conversations_text(saved))]]
        /\ UNCHANGED <<now, stateFile, convFile, inflight>>

NextRoundTrip ==
    \/ RoundTripState
    \/ RoundTripConversations

SpecRoundTrip == InitRoundTrip /\ [][NextRoundTrip]_vars

\* C32: what load_state returns after save_state, and what
\* load_conversations returns after save_conversations, is equal to the
\* structure that was saved: every key, every nested value and the order
\* of the messages.
C32_RoundTrip ==
    resp.op \in {"save_state, load_state",
                 "save_conversations, load_conversations"} =>
        resp.out.loaded = resp.out.saved

\* C32 witness: the dialog store saved and loaded with a session in it
\* that holds seven messages, the cached issues, a selected issue and the
\* cleared flag, next to a state file with a completed record.
C32_Witness ==
    /\ resp.op = "save_conversations, load_conversations"
    /\ convFile = Answered
    /\ Len(Session.messages) = 7
    /\ resp.out.loaded = convs_py(load_conversations(convFile))
    /\ \E c \in DOMAIN load_state(stateFile).conversations :
          load_state(stateFile).conversations[c].completed

\* The denial rules of the specification in its decision order, each with
\* the reason it gives.
RuleOrder == <<"cooldown", "completed", "turns", "timeout", "self">>
RuleReason ==
    [cooldown |-> "Cooldown active (60s)",
     completed |-> "Conversation already completed",
     turns |-> "Max turns reached (3)",
     timeout |-> "Conversation timed out",
     self |-> "Won't respond to own messages"]
\* Whether a rule, taken on its own, applies to a call.
RuleApplies(rule, c, s) ==
    CASE rule = "cooldown" ->
           LastResponse(stateFile) # None
             /\ now - LastResponse(stateFile)[1] < 60
      [] rule = "completed" ->
           c \in Records(stateFile) /\ Conv(stateFile, c).completed
      [] rule = "turns" ->
           c \in Records(stateFile) /\ Conv(stateFile, c).turns >= 3
      [] rule = "timeout" ->
           c \in Records(stateFile)
             /\ now - Conv(stateFile, c).started_at > 300
      [] OTHER -> s = "nanobot"
Applying(c, s) == {i \in 1..Len(RuleOrder) : RuleApplies(RuleOrder[i], c, s)}

\* C33: a check_safeguards call to which one or more denial rules apply is
\* denied with the reason of the first of them in the order cooldown,
\* already completed, turn budget, timeout, self-origin; a call to which
\* none applies is admitted.
C33_FirstRuleWins ==
    IsCheck =>
       LET applying == Applying(resp.id, resp.arg)
       IN  IF applying = {} THEN resp.ok /\ resp.text = "OK"
           ELSE /\ ~resp.ok
                /\ resp.text =
                     RuleReason[RuleOrder[CHOOSE i \in applying :
                                             \A j \in applying : i <= j]]

\* C33 witness: a call from "nanobot" inside the cooldown on a completed
\* record that has used its turns: four rules apply and the reason is the
\* cooldown.
C33_Witness ==
    /\ IsCheck /\ resp.text = "Cooldown active (60s)"
    /\ Cardinality(Applying(resp.id, resp.arg)) >= 4
    /\ resp.arg = "nanobot"

\* C35: when record_turn(id) is only ever called directly after
\* check_safeguards admitted that id, no record's turns exceeds
\* MAX_TURNS_PER_CONVERSATION (3) in any reachable state.
C35_TurnsWithinBudget ==
    \A c \in Records(stateFile) : Conv(stateFile, c).turns <= 3

\* C35 witness: an admitted request has been answered and its record_turn
\* has brought the record to its third turn.
C35_Witness ==
    /\ resp.op = "record_turn"
    /\ resp.id \in Records(stateFile)
    /\ Conv(stateFile, resp.id).turns = 3
    /\ Conv(stateFile, resp.id).last_message_at = now

\* C36: when requests are handled one after another, each as
\* check_safeguards, response, record_turn, the record_turn of an answered
\* request comes at least COOLDOWN_SECONDS (60) after the record_turn
\* before it, whichever conversation ids the two requests carry.
C36_AnswersCooldownApart ==
    (resp.op = "record_turn" /\ resp.out.before # None) =>
        LastResponse(stateFile)[1] - resp.out.before[1] >= 60

\* C36 witness: two requests answered in the same run, the second, for a
\* conversation without a record, admitted once the cooldown after the
\* first had passed.
C36_Witness ==
    /\ resp.op = "record_turn"
    /\ resp.out.before # None
    /\ resp.out.before[1] > StartTime
    /\ resp.id \notin Records(stateFile)
    /\ Records(stateFile) # {}
    /\ LastResponse(stateFile) = <<now>>

\* C37: in every state of the dialog store between two dialog steps, a
\* session whose waiting_for_claude is true has a selected issue that is
\* not None and is the number of an issue in the session's cached list.
C37_PendingHasSelection ==
    \A c \in DOMAIN load_conversations(convFile) :
        LET context == load_conversations(convFile)[c].context
        IN  Pending(context) =>
               /\ Selected(context) # None
               /\ \E i \in DOMAIN CachedIssues(context) :
                     CachedIssues(context)[i].number = Selected(context)[1]

\* C37 witness: a session left pending by the analysis of issue 12.
C37_Witness ==
    /\ IsDialog /\ resp.out.waiting_for = "claude_decision"
    /\ Pending(Session.context)
    /\ Selected(Session.context) = <<12>>

\* C38: in every state of the dialog store, each session's turn counter
\* equals the number of messages stored in the session.
C38_TurnCountsMessages ==
    \A c \in DOMAIN load_conversations(convFile) :
        load_conversations(convFile)[c].turn =
            Len(load_conversations(convFile)[c].messages)

\* C38 witness: a session that has been through first contact and three
\* exchanges holds seven messages and turn = 7.
C38_Witness ==
    /\ IsDialog
    /\ Len(Session.messages) = 7
    /\ Session.turn = 7

====
